---- MODULE Spec2Model ----
(***************************************************************************)
(* Decision & automation engine of creditbeast (apps/api/services).        *)
(*                                                                         *)
(* SpecDunning  : DunningEmailService.process_dunning_sequence over the    *)
(*                dunning_sequence_states / dunning_sequences tables of    *)
(*                one failed payment, with a clock in hours.               *)
(* SpecLead     : LeadScoringService.score_lead applied to a lead dict and *)
(*                a scoring profile drawn from bounded sets.               *)
(* SpecClassify : LeadScoringService._determine_qualification_status       *)
(*                applied to score results over a grid of scores.          *)
(* SpecDefaultProfile, SpecBureau, SpecRetry, SpecSchedule, SpecChurn :    *)
(*                the default scoring profile, bureau targeting, payment   *)
(*                retry, dispute scheduling and churn prediction services. *)
(* SpecDunningCalls : process_dunning_sequence calls interleaved at their  *)
(*                database awaits.                                         *)
(* SpecDunningLive : SpecDunning with fair calls and a fair clock.         *)
(* SpecBilling  : DunningService.handle_payment_failure, the Stripe        *)
(*                webhooks and the retry job, with a clock in days.        *)
(* SpecLetter   : LetterGenerationService.generate_letter.                 *)
(*                                                                         *)
(* Fixed-point conventions: times are whole hours; money is in cents       *)
(* (amount_cents) and in dollars (min_amount), as in the source; criterion *)
(* scores, lead scores and thresholds are in hundredths (7.0 is 700),      *)
(* weights in tenths (1.5 is 15), confidences are fractions num/den.       *)
(***************************************************************************)
EXTENDS Integers, Sequences, FiniteSets, TLC

VARIABLES
    now,          \* datetime.utcnow(), in hours
    seqStates,    \* table dunning_sequence_states (rows of this payment)
    dunSteps,     \* table dunning_sequences (rows of this organization)
    payment,      \* table payment_attempts: the rows with this payment's id
    sent,         \* step_number -> number of dunning emails sent for it
    dunResult     \* the dict returned by the last process_dunning_sequence

VARIABLES
    lead,         \* lead_data: the dict handed to score_lead
    profile,      \* the lead_scoring_profiles row score_lead finds, or None
    leadResult    \* the dict returned by the last score_lead

VARIABLES
    clsProfile,     \* the thresholds of the profile a lead is classified under
    clsConfidence,  \* the confidence of the score results classified
    clsPrev,        \* the classification before the last one
    clsLast         \* the last classification: its score and the status returned

VARIABLES
    profilesTable,  \* table lead_scoring_profiles
    dpCalls         \* the score_lead calls in flight: where each one is

VARIABLES
    bureauRules,    \* table bureau_targeting_rules (rows of this organization)
    bureauDispute,  \* dispute_data handed to recommend_bureaus
    bureauHistory,  \* client_history handed to recommend_bureaus, or None
    bureauResult    \* the dict returned by the last recommend_bureaus

VARIABLES
    retryPayment,  \* table payment_attempts: the failed row with the payment's id, or None
    retryConfig,   \* table payment_retry_configs: the latest active row, or None
    retryTier,     \* the tier _calculate_retry_strategy took its settings from
    retryResult    \* the dict returned by the last get_next_retry_strategy

VARIABLES
    schedDispute,  \* table disputes: the row with the dispute's id, or None
    schedRules,    \* table scheduling_rules (rows of this organization)
    schedPrefs,    \* table client_preferences: the row of the dispute's client, or None
    schedTasks,    \* table scheduled_tasks
    schedResult    \* the dict returned by the last schedule_next_round

VARIABLES
    churnClients,   \* the rows _get_clients_for_analysis returns (active clients)
    churnActivity,  \* each client's disputes, payments, email logs and documents
    churnRequest,   \* request_data of the last predict_churn
    churnResult     \* the dict returned by the last predict_churn

VARIABLES
    dunCalls   \* the process_dunning_sequence calls in flight: where each one is

VARIABLES
    billNow,          \* billing dunning: the clock, in days
    billInvoices,     \* billing_invoices: the invoice of the payment intent, if any
    billOrg,          \* organizations / billing_subscriptions: the invoice's organization
    billCharge,       \* whether a charge of the payment intent is awaiting its outcome
    billFailures,     \* how many failures handle_payment_failure has handled for the invoice
    billSuspensions,  \* how many times _suspend_account has run for the invoice
    billResult        \* what the last handle_payment_failure call returned

VARIABLES
    letterTemplates,  \* letter_templates: the organization's template rows
    letterDispute,    \* disputes: the row of the dispute asked for, if any
    letterClient,     \* clients: the row of the dispute's client, if any
    letterRequest,    \* the template_id argument of the last generate_letter call
    letterSaved,      \* generated_letters, in insertion order
    letterResult      \* what the last generate_letter call returned or raised

dunVars == <<now, seqStates, dunSteps, payment, sent, dunResult>>
leadVars == <<lead, profile, leadResult>>
clsVars == <<clsProfile, clsConfidence, clsPrev, clsLast>>
dpVars == <<profilesTable, dpCalls>>
burVars == <<bureauRules, bureauDispute, bureauHistory, bureauResult>>
retryVars == <<retryPayment, retryConfig, retryTier, retryResult>>
schedVars == <<schedDispute, schedRules, schedPrefs, schedTasks, schedResult>>
churnVars == <<churnClients, churnActivity, churnRequest, churnResult>>
dunCallVars == <<dunCalls>>
billVars == <<billNow, billInvoices, billOrg, billCharge, billFailures, billSuspensions, billResult>>
letterVars == <<letterTemplates, letterDispute, letterClient, letterRequest, letterSaved, letterResult>>

vars == <<now, seqStates, dunSteps, payment, sent, dunResult,
          lead, profile, leadResult,
          clsProfile, clsConfidence, clsPrev, clsLast,
          profilesTable, dpCalls,
          bureauRules, bureauDispute, bureauHistory, bureauResult,
          retryPayment, retryConfig, retryTier, retryResult,
          schedDispute, schedRules, schedPrefs, schedTasks, schedResult,
          churnClients, churnActivity, churnRequest, churnResult,
          dunCalls,
          billNow, billInvoices, billOrg, billCharge, billFailures, billSuspensions, billResult,
          letterTemplates, letterDispute, letterClient, letterRequest, letterSaved, letterResult>>

\* What an operation of one service leaves alone: the other services' state.
otherThanDunning == <<leadVars, clsVars, dpVars, burVars, retryVars, schedVars, churnVars, dunCallVars, billVars, letterVars>>
otherThanLead == <<dunVars, clsVars, dpVars, burVars, retryVars, schedVars, churnVars, dunCallVars, billVars, letterVars>>
otherThanClassify == <<dunVars, leadVars, dpVars, burVars, retryVars, schedVars, churnVars, dunCallVars, billVars, letterVars>>
otherThanDefaultProfile == <<dunVars, leadVars, clsVars, burVars, retryVars, schedVars, churnVars, dunCallVars, billVars, letterVars>>
otherThanBureau == <<dunVars, leadVars, clsVars, dpVars, retryVars, schedVars, churnVars, dunCallVars, billVars, letterVars>>
otherThanRetry == <<dunVars, leadVars, clsVars, dpVars, burVars, schedVars, churnVars, dunCallVars, billVars, letterVars>>
otherThanSchedule == <<dunVars, leadVars, clsVars, dpVars, burVars, retryVars, churnVars, dunCallVars, billVars, letterVars>>
otherThanChurn == <<dunVars, leadVars, clsVars, dpVars, burVars, retryVars, schedVars, dunCallVars, billVars, letterVars>>
otherThanDunningCalls == <<leadVars, clsVars, dpVars, burVars, retryVars, schedVars, churnVars, billVars, letterVars>>
otherThanBilling == <<dunVars, leadVars, clsVars, dpVars, burVars, retryVars, schedVars, churnVars, dunCallVars, letterVars>>
otherThanLetter == <<dunVars, leadVars, clsVars, dpVars, burVars, retryVars, schedVars, churnVars, dunCallVars, billVars>>

(***************************************************************************)
(* Bounds of the model.                                                    *)
(***************************************************************************)
MaxSteps == 2
MaxTime == 75

\* Python's None / an absent dict key: an optional value is a set of at most
\* one element.
None == {}
Some(x) == {x}
TheValue(o) == CHOOSE x \in o : TRUE

Max(a, b) == IF a >= b THEN a ELSE b
Min(a, b) == IF a <= b THEN a ELSE b

(***************************************************************************)
(* datetime.isoformat() / datetime.fromisoformat(): the stored columns are *)
(* ISO strings, parsed back before they are compared.                      *)
(***************************************************************************)
IsoFormat(t) == <<"iso", t>>
FromIsoFormat(s) == s[2]

(***************************************************************************)
(* Step rows of dunning_sequences (models/schemas.py DunningSequenceStep): *)
(* delay_hours is a column of its own, conditions is a dict whose keys     *)
(* may or may not be present (its DOMAIN).                                 *)
(***************************************************************************)
DelayChoices == {24, 48}
MinAmountChoices == {50}
AmountCentsChoices == {4999, 5000}

TemplateKey(n) == <<"dunning_template", n>>

StepRow(n, d, K, m, active) ==
    [step_number |-> n, delay_hours |-> d,
     conditions |-> [k \in K |-> IF k = "delay_hours" THEN d ELSE m],
     email_template_key |-> TemplateKey(n), is_final |-> FALSE,
     is_active |-> active]

StepRows(n) ==
    { StepRow(n, d, K, m, TRUE) :
        d \in DelayChoices, K \in SUBSET {"delay_hours", "min_amount"},
        m \in MinAmountChoices }
    \cup { StepRow(n, d, {}, m, FALSE) :
              d \in {24} \cap DelayChoices, m \in MinAmountChoices }

\* A step table holds at most one row per step number.
RECURSIVE TablesUpTo(_)
TablesUpTo(n) ==
    IF n = 0 THEN { {} }
    ELSE { T \cup o : T \in TablesUpTo(n - 1),
                      o \in { {} } \cup { {r} : r \in StepRows(n) } }

StepTables == TablesUpTo(MaxSteps)

(***************************************************************************)
(* The queries of DunningEmailService.  `.execute().data[0] if data else   *)
(* None`: the first row that matches, or None.  The tables are modelled    *)
(* in insertion order (seqStates) or hold one row per key (dunSteps).      *)
(***************************************************************************)
\* Faulty variant: the lookup filters on a status no row has, so it finds nothing.
_get_sequence_state_WrongStatus(rows) ==
    LET hits == { i \in 1..Len(rows) : rows[i].status = "completed" }
    IN  IF hits = {} THEN None
        ELSE Some(rows[CHOOSE i \in hits : \A j \in hits : i <= j])

_get_sequence_state(rows) ==
    LET hits == { i \in 1..Len(rows) : rows[i].status = "active" }
    IN  IF hits = {} THEN None
        ELSE Some(rows[CHOOSE i \in hits : \A j \in hits : i <= j])

NewSequenceRow(t) ==
    [current_step |-> 0, status |-> "active",
     started_at |-> IsoFormat(t), last_step_at |-> None]

\* Faulty variant: the is_active filter is forgotten.
_get_next_sequence_step_AnyRow(T, n) ==
    LET hits == { r \in T : r.step_number = n }
    IN  IF hits = {} THEN None ELSE Some(CHOOSE r \in hits : TRUE)

_get_next_sequence_step(T, n) ==
    LET hits == { r \in T : r.step_number = n /\ r.is_active }
    IN  IF hits = {} THEN None ELSE Some(CHOOSE r \in hits : TRUE)

_get_payment_data(rows) ==
    IF rows = {} THEN None ELSE Some(CHOOSE r \in rows : TRUE)

\* payment_data.get('amount_cents', 0)
AmountCentsOf(pd) == IF pd = None THEN 0 ELSE TheValue(pd).amount_cents

_check_time_condition(state, required_hours, t) ==
    LET start_time == IF state.last_step_at = None
                        THEN FromIsoFormat(state.started_at)
                        ELSE FromIsoFormat(TheValue(state.last_step_at))
    IN  t - start_time >= required_hours

\* Faulty variant: a payment of exactly the minimum amount is held back too.
_should_trigger_step_StrictAmount(step, state, pay, t) ==
    LET conditions == step.conditions IN
    IF /\ "delay_hours" \in DOMAIN conditions
       /\ ~ _check_time_condition(state, conditions["delay_hours"], t)
      THEN FALSE
    ELSE IF /\ "min_amount" \in DOMAIN conditions
            /\ AmountCentsOf(_get_payment_data(pay)) <= conditions["min_amount"] * 100
      THEN FALSE
    ELSE TRUE

_should_trigger_step(step, state, pay, t) ==
    LET conditions == step.conditions IN
    IF /\ "delay_hours" \in DOMAIN conditions
       /\ ~ _check_time_condition(state, conditions["delay_hours"], t)
      THEN FALSE
    ELSE IF /\ "min_amount" \in DOMAIN conditions
            /\ AmountCentsOf(_get_payment_data(pay)) < conditions["min_amount"] * 100
      THEN FALSE
    ELSE TRUE

\* _update_sequence_state: UPDATE ... WHERE failed_payment_id, organization_id
\* (every row of this payment, whatever its status).
\* Faulty variant: the update stamps last_step_at but does not store the step.
_update_sequence_state_KeepsStep(rows, step_number, t) ==
    [i \in 1..Len(rows) |->
        [rows[i] EXCEPT !.last_step_at = Some(IsoFormat(t))]]

_update_sequence_state(rows, step_number, t) ==
    [i \in 1..Len(rows) |->
        [rows[i] EXCEPT !.current_step = step_number,
                        !.last_step_at = Some(IsoFormat(t))]]

\* _get_next_check_date(step)
_get_next_check_date(step, t) ==
    LET c == step.conditions IN
    IsoFormat(t + (IF "delay_hours" \in DOMAIN c THEN c["delay_hours"] ELSE 24))

\* The dunning variables while no dunning sequence is processed.
DunningIdle ==
    /\ now = 0
    /\ seqStates = <<>>
    /\ dunSteps = {}
    /\ payment = {}
    /\ sent = [n \in 1..MaxSteps |-> 0]
    /\ dunResult = [action |-> "none"]

\* The lead-scoring variables while no lead is being scored.
LeadIdle ==
    /\ lead = <<>>
    /\ profile = None
    /\ leadResult = [scoring_profile_used |-> "none"]

\* The classification variables while nothing is classified.
NotClassified == [score |-> 0, status |-> "none"]
ClassifyIdle ==
    /\ clsProfile = [auto_qualify_threshold |-> 700,
                     require_review_threshold |-> 500,
                     disqualify_threshold |-> 300]
    /\ clsConfidence = [num |-> 1, den |-> 2]
    /\ clsPrev = NotClassified
    /\ clsLast = NotClassified

\* The table of scoring profiles while no score_lead call is in flight.
DefaultProfileIdle ==
    /\ profilesTable = <<>>
    /\ dpCalls = <<>>

\* The bureau-targeting variables while nothing is recommended.
BureauIdle ==
    /\ bureauRules = <<>>
    /\ bureauDispute = <<>>
    /\ bureauHistory = None
    /\ bureauResult = [rule_applied |-> "none"]

\* The payment-retry variables while no retry strategy is asked for.
RetryIdle ==
    /\ retryPayment = None
    /\ retryConfig = None
    /\ retryTier = None
    /\ retryResult = [strategy |-> "none"]

\* The scheduling variables while no round is being scheduled.
ScheduleIdle ==
    /\ schedDispute = None
    /\ schedRules = {}
    /\ schedPrefs = None
    /\ schedTasks = <<>>
    /\ schedResult = [rule_applied |-> "none"]

\* The churn prediction variables while nothing is being predicted.
ChurnIdle ==
    /\ churnClients = <<>>
    /\ churnActivity = <<>>
    /\ churnRequest = [include_factors |-> TRUE, include_recommendations |-> TRUE]
    /\ churnResult = [organization_id |-> "none"]

\* No concurrent process_dunning_sequence call is in flight.
DunningCallsIdle ==
    /\ dunCalls = <<>>

\* The billing variables while no invoice is in dunning.
BillingIdle ==
    /\ billNow = 0
    /\ billInvoices = None
    /\ billOrg = [subscription_status |-> "active", subscription |-> "active", suspended_at |-> None]
    /\ billCharge = "none"
    /\ billFailures = 0
    /\ billSuspensions = 0
    /\ billResult = [success |-> FALSE, error |-> "none"]

\* The letter variables while no letter is generated.
LetterIdle ==
    /\ letterTemplates = {}
    /\ letterDispute = None
    /\ letterClient = None
    /\ letterRequest = None
    /\ letterSaved = <<>>
    /\ letterResult = [outcome |-> "none"]

\* Every service but the one named is idle.
OthersIdle(service) ==
    /\ (service \notin {"dunning", "dunning_calls"} => DunningIdle)
    /\ (service # "lead" => LeadIdle)
    /\ (service # "classify" => ClassifyIdle)
    /\ (service # "default_profile" => DefaultProfileIdle)
    /\ (service # "bureau" => BureauIdle)
    /\ (service # "retry" => RetryIdle)
    /\ (service # "schedule" => ScheduleIdle)
    /\ (service # "churn" => ChurnIdle)
    /\ (service # "dunning_calls" => DunningCallsIdle)
    /\ (service # "billing" => BillingIdle)
    /\ (service # "letter" => LetterIdle)

(***************************************************************************)
(* DunningEmailService.process_dunning_sequence, one whole call.           *)
(***************************************************************************)
SendResult(step, t) ==
    [success |-> TRUE, message_id |-> <<"dunning", step.step_number>>,
     sent_at |-> IsoFormat(t)]

process_dunning_sequence ==
    LET found    == _get_sequence_state(seqStates)
        rows     == IF found = None
                      THEN Append(seqStates, NewSequenceRow(now))
                      ELSE seqStates
        state    == IF found = None THEN NewSequenceRow(now) ELSE TheValue(found)
        nextStep == _get_next_sequence_step(dunSteps, state.current_step + 1)
    IN
    IF nextStep = None
      THEN /\ seqStates' = rows
           /\ dunResult' = [action |-> "sequence_complete",
                            message |-> "Dunning email sequence completed",
                            escalation_required |-> TRUE]
           /\ UNCHANGED sent
    ELSE LET step == TheValue(nextStep) IN
      IF _should_trigger_step(step, state, payment, now)
        THEN /\ sent' = [sent EXCEPT ![step.step_number] = @ + 1]
             /\ seqStates' = _update_sequence_state(rows, step.step_number, now)
             /\ dunResult' = [action |-> "email_sent",
                              step_number |-> step.step_number,
                              email_template |-> step.email_template_key,
                              email_result |-> SendResult(step, now),
                              is_final_step |-> step.is_final]
        ELSE /\ seqStates' = rows
             /\ dunResult' = [action |-> "wait",
                              message |-> "Conditions not met for next step",
                              next_check_date |-> _get_next_check_date(step, now)]
             /\ UNCHANGED sent

ProcessDunning ==
    /\ process_dunning_sequence
    /\ UNCHANGED <<now, dunSteps, payment>>
    /\ UNCHANGED otherThanDunning

\* Time passes between calls: the next call comes a day, or 25 hours, later.
TickChoices == {24, 25}

Tick ==
    /\ \E d \in TickChoices :
          /\ now + d <= MaxTime
          /\ now' = now + d
    /\ UNCHANGED <<seqStates, dunSteps, payment, sent, dunResult>>
    /\ UNCHANGED otherThanDunning

InitDunning ==
    /\ now = 0
    /\ seqStates = <<>>
    /\ dunSteps \in StepTables
    /\ payment \in { {} } \cup { {[amount_cents |-> a]} : a \in AmountCentsChoices }
    /\ sent = [n \in 1..MaxSteps |-> 0]
    /\ dunResult = [action |-> "none"]
    /\ OthersIdle("dunning")

NextDunning == ProcessDunning \/ Tick

SpecDunning == InitDunning /\ [][NextDunning]_vars

(***************************************************************************)
(* Claims about the dunning sequence (SpecDunning).                        *)
(***************************************************************************)
\* The sequence state a call works on: the stored active row, or the row a
\* first call inserts.
ActiveRowIndexes(rows) == { i \in 1..Len(rows) : rows[i].status = "active" }
HasState(rows) == ActiveRowIndexes(rows) # {}
StateAt(rows, t) ==
    IF HasState(rows)
      THEN rows[CHOOSE i \in ActiveRowIndexes(rows) :
                  \A j \in ActiveRowIndexes(rows) : i <= j]
      ELSE NewSequenceRow(t)
CurrentStep(rows) == IF HasState(rows) THEN StateAt(rows, 0).current_step ELSE 0
SentSteps == { n \in 1..MaxSteps : sent'[n] > sent[n] }
ConfiguredStep(n) == { r \in dunSteps : r.step_number = n /\ r.is_active }

\* C1: over successive calls the sequence's current_step never decreases, and
\* a call that sends a step sets current_step to that step's number, which
\* is the previous current_step + 1.
C1_StepMonotone ==
    [][ /\ CurrentStep(seqStates') >= CurrentStep(seqStates)
        /\ \A n \in SentSteps :
             /\ n = CurrentStep(seqStates) + 1
             /\ CurrentStep(seqStates') = n
             /\ dunResult'.action = "email_sent"
             /\ dunResult'.step_number = n
        /\ (CurrentStep(seqStates') # CurrentStep(seqStates) => SentSteps # {}) ]_vars

C1_Witness ==
    /\ dunResult.action = "email_sent"
    /\ dunResult.step_number = 2
    /\ CurrentStep(seqStates) = 2
    /\ sent[1] = 1 /\ sent[2] = 1

\* C2: step current_step + 1 is sent only when the time elapsed since
\* last_step_at (or started_at) is at least the step's delay_hours and, when
\* the step specifies min_amount, the failed amount is at least min_amount;
\* otherwise the action is wait.  With step-1 delay_hours = 24 a call made
\* right after the sequence starts waits.
ElapsedHours(state, t) ==
    t - (IF state.last_step_at = None
           THEN FromIsoFormat(state.started_at)
           ELSE FromIsoFormat(TheValue(state.last_step_at)))

ClaimedDue(step, state, t) ==
    /\ ElapsedHours(state, t) >= step.delay_hours
    /\ ("min_amount" \in DOMAIN step.conditions =>
          AmountCentsOf(_get_payment_data(payment)) >= step.conditions["min_amount"] * 100)

C2_SentOnlyWhenDue ==
    [][ ProcessDunning =>
          \A step \in ConfiguredStep(CurrentStep(seqStates) + 1) :
             IF ClaimedDue(step, StateAt(seqStates, now), now)
               THEN dunResult'.action = "email_sent"
               ELSE dunResult'.action = "wait" /\ SentSteps = {} ]_vars

\* C3: when the next step's conditions are not met the call returns wait,
\* sends nothing and leaves the existing sequence state unchanged; a second
\* call on that unchanged state, conditions still unmet, does the same.
ConditionsUnmet ==
    \E step \in ConfiguredStep(CurrentStep(seqStates) + 1) :
        ~ _should_trigger_step(step, StateAt(seqStates, now), payment, now)

C4_CompleteLeavesState ==
    [][ (ProcessDunning /\ ConfiguredStep(CurrentStep(seqStates) + 1) = {}) =>
          /\ dunResult'.action = "sequence_complete"
          /\ dunResult'.escalation_required
          /\ sent' = sent
          /\ StateAt(seqStates', now).current_step = StateAt(seqStates, now).current_step
          /\ StateAt(seqStates', now).last_step_at = StateAt(seqStates, now).last_step_at
          /\ (HasState(seqStates) => seqStates' = seqStates) ]_vars

C4_Witness ==
    /\ dunResult.action = "sequence_complete"
    /\ CurrentStep(seqStates) = 1
    /\ sent[1] = 1
    /\ \E r \in dunSteps : r.step_number = 2 /\ ~ r.is_active

\* C5: once a call has reported sequence_complete for the payment, its
\* sequence state is no longer in status active (it is completed).
C5_CompletedStatus ==
    dunResult.action = "sequence_complete" =>
        \A i \in 1..Len(seqStates) : seqStates[i].status # "active"

(***************************************************************************)
(* Lead scoring (services/lead_scoring.py).                                *)
(*                                                                         *)
(* Python values: a dict is a function whose DOMAIN is the keys present;   *)
(* a value is None or a str.  A str is the sequence of its tokens (single  *)
(* characters for a phone number, words and separators elsewhere), so      *)
(* that lower(), strip(), split('@') and re.sub(r'\D', '') are computed.   *)
(***************************************************************************)
PyNone == [kind |-> "none", s |-> <<>>]
PyStr(toks) == [kind |-> "str", s |-> toks]
PyDict(d) == [kind |-> "dict", s |-> <<>>, d |-> d]
EmptyDict == [k \in {} |-> PyNone]

\* dict.get(key, default)
Get(d, key, default) == IF key \in DOMAIN d THEN d[key] ELSE default

\* v.lower(), v.upper(), v.strip() raise AttributeError when v is None.
IsStr(v) == v.kind = "str"

LowerTok(t) ==
    CASE t = "A" -> "a"
      [] t = "CORP.COM" -> "corp.com"
      [] t = "Google" -> "google"
      [] t = "Referral" -> "referral"
      [] t = "URGENT" -> "urgent"
      [] t = "CA" -> "ca"
      [] t = "WY" -> "wy"
      [] t = "Capital" -> "capital"
      [] t = "One" -> "one"
      [] t = "Chase" -> "chase"
      [] OTHER -> t
UpperTok(t) ==
    CASE t = "ca" -> "CA"
      [] t = "wy" -> "WY"
      [] OTHER -> t
StrLower(toks) == [i \in DOMAIN toks |-> LowerTok(toks[i])]
StrUpper(toks) == [i \in DOMAIN toks |-> UpperTok(toks[i])]

IsSpace(t) == t = " "
RECURSIVE LStrip(_)
LStrip(toks) ==
    IF toks # <<>> /\ IsSpace(Head(toks)) THEN LStrip(Tail(toks)) ELSE toks
RECURSIVE RStrip(_)
RStrip(toks) ==
    IF toks # <<>> /\ IsSpace(toks[Len(toks)])
      THEN RStrip(SubSeq(toks, 1, Len(toks) - 1)) ELSE toks
StrStrip(toks) == RStrip(LStrip(toks))

\* email.split('@')[1] if '@' in email else ''
AtPositions(toks) == { i \in 1..Len(toks) : toks[i] = "@" }
EmailDomain(toks) ==
    IF AtPositions(toks) = {} THEN <<>>
    ELSE LET first == CHOOSE i \in AtPositions(toks) : \A j \in AtPositions(toks) : i <= j
             later == { j \in AtPositions(toks) : j > first }
             stop  == IF later = {} THEN Len(toks) + 1
                      ELSE CHOOSE j \in later : \A k \in later : j <= k
         IN  SubSeq(toks, first + 1, stop - 1)

\* re.sub(r'\D', '', phone)
IsDigit(t) == t \in {"0", "1", "2", "3", "4", "5", "6", "7", "8", "9"}
DigitsOnly(toks) == SelectSeq(toks, IsDigit)

InList(toks, list) == \E i \in 1..Len(list) : list[i] = toks

\* What a _score_* method hands back: (score, reasoning), or an exception.
Scored(score, reason) == [raises |-> FALSE, score |-> score, reasoning |-> reason]
Raised == [raises |-> TRUE, score |-> 0, reasoning |-> <<>>]

_score_email_domain(lead_data, positive_domains, negative_domains) ==
    LET v == Get(lead_data, "email", PyStr(<<>>)) IN
    IF ~ IsStr(v) THEN Raised
    ELSE LET email  == StrLower(v.s)
             domain == EmailDomain(email)
         IN  IF email = <<>> THEN Scored(0, <<"No email provided">>)
             ELSE IF domain = <<>> THEN Scored(0, <<"Invalid email format">>)
             ELSE IF InList(domain, positive_domains)
               THEN Scored(100, <<"Email domain is in positive list">>)
             ELSE IF InList(domain, negative_domains)
               THEN Scored(0, <<"Email domain is in negative list">>)
             ELSE Scored(50, <<"Email domain is not in known lists">>)

_score_phone_format(lead_data) ==
    LET v == Get(lead_data, "phone", PyStr(<<>>)) IN
    IF v.kind = "none" \/ v.s = <<>>
      THEN Scored(0, <<"No phone number provided">>)
    ELSE LET digits_only == DigitsOnly(v.s) IN
         IF Len(digits_only) = 10
           THEN Scored(100, <<"Valid 10-digit phone number">>)
         ELSE IF Len(digits_only) = 11 /\ Head(digits_only) = "1"
           THEN Scored(90, <<"Valid 11-digit phone number with country code">>)
         ELSE IF Len(digits_only) >= 10
           THEN Scored(70, <<"Phone number format needs verification">>)
         ELSE Scored(0, <<"Invalid phone number format">>)

address_fields == <<"street_address", "city", "state", "zip_code">>

_score_address_validity(lead_data) ==
    LET vals == [i \in 1..Len(address_fields) |->
                    Get(lead_data, address_fields[i], PyStr(<<>>))]
        provided_fields ==
            Cardinality({ i \in 1..Len(address_fields) : StrStrip(vals[i].s) # <<>> })
        \* completeness = provided_fields / len(address_fields), in hundredths
        completeness == (100 * provided_fields) \div Len(address_fields)
    IN  IF \E i \in 1..Len(address_fields) : ~ IsStr(vals[i]) THEN Raised
        ELSE IF completeness = 100 THEN Scored(completeness, <<"Complete address provided">>)
        ELSE IF completeness >= 75 THEN Scored(completeness, <<"Nearly complete address provided">>)
        ELSE IF completeness >= 50 THEN Scored(completeness, <<"Partial address provided">>)
        ELSE Scored(completeness, <<"Incomplete address provided">>)

_score_utm_source(lead_data, positive_sources, negative_sources) ==
    LET v == Get(lead_data, "utm_source", PyStr(<<>>)) IN
    IF ~ IsStr(v) THEN Raised
    ELSE LET utm_source == StrLower(v.s) IN
         IF utm_source = <<>> THEN Scored(0, <<"No UTM source provided">>)
         ELSE IF InList(utm_source, positive_sources)
           THEN Scored(100, <<"UTM source is high quality">>)
         ELSE IF InList(utm_source, negative_sources)
           THEN Scored(0, <<"UTM source is low quality">>)
         ELSE Scored(50, <<"UTM source is moderate quality">>)

_score_lead_source(lead_data, positive_sources, negative_sources) ==
    LET v == Get(lead_data, "lead_source", PyStr(<<>>)) IN
    IF ~ IsStr(v) THEN Raised
    ELSE LET lead_source == StrLower(v.s) IN
         IF lead_source = <<>> THEN Scored(0, <<"No lead source specified">>)
         ELSE IF InList(lead_source, positive_sources)
           THEN Scored(100, <<"Lead source is high quality">>)
         ELSE IF InList(lead_source, negative_sources)
           THEN Scored(0, <<"Lead source is low quality">>)
         ELSE Scored(50, <<"Lead source is moderate quality">>)

_score_name_completeness(lead_data) ==
    LET f == Get(lead_data, "first_name", PyStr(<<>>))
        l == Get(lead_data, "last_name", PyStr(<<>>))
    IN  IF ~ IsStr(f) \/ ~ IsStr(l) THEN Raised
        ELSE LET first_name == StrStrip(f.s)
                 last_name  == StrStrip(l.s)
             IN  IF first_name # <<>> /\ last_name # <<>>
                   THEN Scored(100, <<"Complete name provided">>)
                 ELSE IF first_name # <<>> \/ last_name # <<>>
                   THEN Scored(50, <<"Partial name provided">>)
                 ELSE Scored(0, <<"No name provided">>)

urgency_indicators == {"urgent", "asap", "immediately", "soon"}
low_concern_levels == <<<<"low">>, <<"minor">>, <<"curious">>>>

\* `indicator in concern_level` is a substring test; a str here is a
\* sequence of words, and a word holds an indicator when it is one.
_score_credit_concern_level(lead_data) ==
    LET cf == Get(lead_data, "custom_fields", PyDict(EmptyDict)) IN
    IF cf.kind # "dict" THEN Raised
    ELSE LET v == Get(cf.d, "concern_level", PyStr(<<>>)) IN
         IF ~ IsStr(v) THEN Raised
         ELSE LET concern_level == StrLower(v.s) IN
              IF \E i \in 1..Len(concern_level) : concern_level[i] \in urgency_indicators
                THEN Scored(80, <<"High concern level indicated">>)
              ELSE IF InList(concern_level, low_concern_levels)
                THEN Scored(30, <<"Low concern level indicated">>)
              ELSE Scored(50, <<>>)

high_demand_states ==
    <<<<"CA">>, <<"TX">>, <<"FL">>, <<"NY">>, <<"PA">>, <<"IL">>, <<"OH">>,
      <<"GA">>, <<"NC">>, <<"MI">>>>

_score_demographic_fit(lead_data) ==
    LET v == Get(lead_data, "state", PyStr(<<>>)) IN
    IF ~ IsStr(v) THEN Raised
    ELSE LET state == StrUpper(v.s) IN
         IF InList(state, high_demand_states)
           THEN Scored(80, <<"State has high credit repair demand">>)
         ELSE IF state # <<>>
           THEN Scored(60, <<"State has moderate credit repair demand">>)
         ELSE Scored(50, <<"No state information provided">>)

\* _score_criteria: dispatch on criteria_type, then apply the weight.
\* score is in hundredths and weight in tenths, so "score" (the weighted
\* score) is in thousandths.
_score_criteria(lead_data, criteria) ==
    LET ct == criteria.criteria_type
        r  == CASE ct = "email_domain" ->
                     _score_email_domain(lead_data, criteria.positive_values,
                                         criteria.negative_values)
                [] ct = "phone_format" -> _score_phone_format(lead_data)
                [] ct = "address_validity" -> _score_address_validity(lead_data)
                [] ct = "utm_source" ->
                     _score_utm_source(lead_data, criteria.positive_values,
                                       criteria.negative_values)
                [] ct = "lead_source" ->
                     _score_lead_source(lead_data, criteria.positive_values,
                                        criteria.negative_values)
                [] ct = "name_completeness" -> _score_name_completeness(lead_data)
                [] ct = "credit_concern_level" -> _score_credit_concern_level(lead_data)
                [] ct = "demographic_fit" -> _score_demographic_fit(lead_data)
                [] OTHER ->
                     Scored(criteria.threshold_score,
                            <<"Unknown criteria type, using threshold score">>)
    IN  [raises |-> r.raises,
         score |-> r.score * criteria.weight,
         raw_score |-> r.score,
         weight |-> criteria.weight,
         reasoning |-> r.reasoning]

important_fields ==
    <<"email", "phone", "first_name", "last_name", "street_address", "city",
      "state", "zip_code", "utm_source", "lead_source">>

\* Python's max(0.1, min(1.0, x)) on the fraction num/den.
ClampConfidence(num, den) ==
    [num |-> Max(den \div 10, Min(den, num)), den |-> den]

\* _calculate_confidence.  max_fields is 10; the result is
\* (data_completeness/10 + criteria_count/max(len(criteria_scores), 1)) / 2,
\* kept as the fraction num/den with den = 20 * max(len(criteria_scores), 1).
_calculate_confidence(lead_data, criteria_scores) ==
    LET vals == [i \in 1..Len(important_fields) |->
                    Get(lead_data, important_fields[i], PyStr(<<>>))]
        data_completeness ==
            Cardinality({ i \in 1..Len(important_fields) : StrStrip(vals[i].s) # <<>> })
        criteria_count ==
            Cardinality({ t \in DOMAIN criteria_scores : criteria_scores[t].raw_score > 0 })
        n == Max(Cardinality(DOMAIN criteria_scores), 1)
    IN  IF \E i \in 1..Len(important_fields) : ~ IsStr(vals[i])
          THEN [raises |-> TRUE, num |-> 0, den |-> 1]
          ELSE [raises |-> FALSE] @@
               ClampConfidence(data_completeness * n + 10 * criteria_count, 20 * n)

ConfidenceBelowHalf(c) == 2 * c.num < c.den

\* round(x, 2) of the score num/den (in hundredths): to the nearest
\* hundredth, a tie to the even one.
RoundHalfEven(num, den) ==
    LET q == num \div den
        r == num % den
    IN  IF 2 * r > den THEN q + 1
        ELSE IF 2 * r < den THEN q
        ELSE IF q % 2 = 0 THEN q ELSE q + 1

\* One pass of the loop of _calculate_lead_score: criteria_scores[type] is
\* overwritten, the totals and the reasoning grow.
LoopStep(acc, criteria, score_result) ==
    [raises |-> acc.raises \/ score_result.raises,
     criteria_scores |->
         [t \in DOMAIN acc.criteria_scores \cup {criteria.criteria_type} |->
            IF t = criteria.criteria_type
              THEN [score |-> score_result.score,
                    raw_score |-> score_result.raw_score,
                    weight |-> score_result.weight,
                    reasoning |-> score_result.reasoning]
              ELSE acc.criteria_scores[t]],
     total_score |-> acc.total_score + score_result.score,
     max_possible_score |-> acc.max_possible_score + criteria.weight,
     reasoning |-> acc.reasoning \o score_result.reasoning]

\* The loop of _calculate_lead_score over profile['criteria'].  (A value
\* used several times is bound in a singleton set, so that it is computed
\* once.)
RECURSIVE ScoreLoop(_, _, _)
ScoreLoop(lead_data, criteria_list, acc) ==
    IF criteria_list = <<>> THEN acc
    ELSE CHOOSE out \in
           { ScoreLoop(lead_data, Tail(criteria_list), next) :
               next \in { LoopStep(a, Head(criteria_list), score_result) :
                            a \in {acc},
                            score_result \in
                                {_score_criteria(lead_data, Head(criteria_list))} } } :
           TRUE

LoopStart ==
    [raises |-> FALSE, criteria_scores |-> <<>>, total_score |-> 0,
     max_possible_score |-> 0, reasoning |-> <<>>]

\* The rest of _calculate_lead_score, after the loop.
LeadScoreOf(lead_data, loop, confidence) ==
    [raises |-> loop.raises \/ confidence.raises,
     \* (total_score / max_possible_score) * 10, in hundredths:
     \* total_score is in thousandths, max_possible_score in tenths.
     total_score |->
         IF loop.max_possible_score > 0
           THEN RoundHalfEven(10 * loop.total_score, loop.max_possible_score)
           ELSE 0,
     raw_score |-> loop.total_score,
     max_possible_score |-> loop.max_possible_score,
     criteria_scores |-> loop.criteria_scores,
     confidence |-> [num |-> confidence.num, den |-> confidence.den],
     reasoning |-> loop.reasoning]

_calculate_lead_score(lead_data, prof) ==
    CHOOSE out \in
      { LeadScoreOf(lead_data, loop, confidence) :
          loop \in { ScoreLoop(lead_data, prof.criteria, LoopStart) },
          confidence \in
              { _calculate_confidence(lead_data, l.criteria_scores) :
                  l \in { ScoreLoop(lead_data, prof.criteria, LoopStart) } } } :
      TRUE

\* Faulty variant: the review test is made before the qualify test.
_determine_qualification_status_ReviewFirst(score_result, prof) ==
    LET low == ConfidenceBelowHalf(score_result.confidence)
        auto_qualify_threshold ==
            prof.auto_qualify_threshold - (IF low THEN 100 ELSE 0)
        require_review_threshold ==
            prof.require_review_threshold - (IF low THEN 50 ELSE 0)
    IN  IF score_result.total_score >= require_review_threshold THEN "review_required"
        ELSE IF score_result.total_score >= auto_qualify_threshold
          THEN "auto_qualified"
        ELSE IF score_result.total_score <= prof.disqualify_threshold
          THEN "auto_disqualified"
        ELSE "manual_review"

\* Faulty variant: the low-confidence reduction is applied to the disqualify
\* threshold as well, and as a raise.
_determine_qualification_status_RaisesDisqualify(score_result, prof) ==
    LET low == ConfidenceBelowHalf(score_result.confidence)
        auto_qualify_threshold ==
            prof.auto_qualify_threshold - (IF low THEN 100 ELSE 0)
        require_review_threshold ==
            prof.require_review_threshold - (IF low THEN 50 ELSE 0)
        disqualify_threshold ==
            prof.disqualify_threshold + (IF low THEN 50 ELSE 0)
    IN  IF score_result.total_score >= auto_qualify_threshold THEN "auto_qualified"
        ELSE IF score_result.total_score >= require_review_threshold
          THEN "review_required"
        ELSE IF score_result.total_score <= disqualify_threshold
          THEN "auto_disqualified"
        ELSE "manual_review"

_determine_qualification_status(score_result, prof) ==
    LET low == ConfidenceBelowHalf(score_result.confidence)
        auto_qualify_threshold ==
            prof.auto_qualify_threshold - (IF low THEN 100 ELSE 0)
        require_review_threshold ==
            prof.require_review_threshold - (IF low THEN 50 ELSE 0)
    IN  IF score_result.total_score >= auto_qualify_threshold THEN "auto_qualified"
        ELSE IF score_result.total_score >= require_review_threshold
          THEN "review_required"
        ELSE IF score_result.total_score <= prof.disqualify_threshold
          THEN "auto_disqualified"
        ELSE "manual_review"

\* The `except Exception` branch of score_lead.
ErrorFallback ==
    [score |-> 500,
     max_score |-> 1000,
     breakdown |-> <<>>,
     qualification_status |-> "manual_review",
     confidence_level |-> [num |-> 1, den |-> 2],
     scoring_profile_used |-> "error_fallback",
     reasoning |-> <<"Scoring error occurred, manual review recommended">>]

\* score_lead(lead_data, organization_id, profile_id): `found` is what the
\* profile lookup returned.
ScoredResult(score_result, prof) ==
    IF score_result.raises THEN ErrorFallback
    ELSE [score |-> score_result.total_score,
          max_score |-> 1000,
          breakdown |-> score_result.criteria_scores,
          qualification_status |->
              _determine_qualification_status(score_result, prof),
          confidence_level |-> score_result.confidence,
          scoring_profile_used |-> prof.name,
          reasoning |-> score_result.reasoning]

score_lead(lead_data, found) ==
    IF found = None THEN ErrorFallback       \* ValueError("No scoring profile found")
    ELSE CHOOSE out \in
           { ScoredResult(score_result, prof) :
               prof \in found,
               score_result \in
                   { _calculate_lead_score(lead_data, p) : p \in found } } :
           TRUE

(***************************************************************************)
(* The leads and profiles score_lead is applied to.                        *)
(***************************************************************************)
MaxCriteria == 2

NoKeys == [k \in {} |-> PyNone]
Chars(seq) == PyStr(seq)

EmailChoices ==
    { NoKeys,
      [email |-> PyNone],
      [email |-> PyStr(<<>>)],
      [email |-> PyStr(<<"a", "@", "gmail.com">>)],
      [email |-> PyStr(<<"a", "@", "tempmail.com">>)],
      [email |-> PyStr(<<"A", "@", "CORP.COM">>)],
      [email |-> PyStr(<<"nodomain">>)] }

PhoneChoices ==
    { NoKeys,
      [phone |-> PyNone],
      [phone |-> Chars(<<"5","5","5","-","1","2","3","-","4","5","6","7">>)],
      [phone |-> Chars(<<"1","5","5","5","1","2","3","4","5","6","7">>)],
      [phone |-> Chars(<<"2","5","5","5","1","2","3","4","5","6","7">>)],
      [phone |-> Chars(<<"5","5","5","-","1","2","3","4">>)] }

OtherFieldsChoices ==
    { NoKeys,
      \* every field filled in
      [first_name |-> PyStr(<<"John">>), last_name |-> PyStr(<<"Doe">>),
       street_address |-> PyStr(<<"123", " ", "Main", " ", "St">>),
       city |-> PyStr(<<"Anytown">>), state |-> PyStr(<<"CA">>),
       zip_code |-> PyStr(<<"12345">>), utm_source |-> PyStr(<<"Google">>),
       lead_source |-> PyStr(<<"Referral">>),
       custom_fields |-> PyDict([concern_level |-> PyStr(<<"URGENT">>)])],
      \* LeadScoringRequest(...).dict() with these fields unset
      [first_name |-> PyNone, last_name |-> PyNone, street_address |-> PyNone,
       city |-> PyNone, state |-> PyNone, zip_code |-> PyNone,
       utm_source |-> PyNone, lead_source |-> PyNone,
       custom_fields |-> PyDict(EmptyDict)],
      \* blank and partial values
      [first_name |-> PyStr(<<" ">>), last_name |-> PyStr(<<"Doe">>),
       street_address |-> PyStr(<<"123", " ", "Main", " ", "St">>),
       city |-> PyStr(<<" ", "Anytown", " ">>), state |-> PyStr(<<>>),
       utm_source |-> PyStr(<<"spam">>), lead_source |-> PyStr(<<>>),
       custom_fields |-> PyDict([concern_level |-> PyStr(<<"low">>)])],
      [first_name |-> PyStr(<<"John">>), state |-> PyStr(<<"wy">>),
       zip_code |-> PyStr(<<"12345">>), utm_source |-> PyStr(<<"newsletter">>),
       lead_source |-> PyStr(<<"bot">>), custom_fields |-> PyNone],
      [first_name |-> PyStr(<<"John">>), last_name |-> PyStr(<<"Doe">>),
       street_address |-> PyStr(<<"123", " ", "Main", " ", "St">>),
       city |-> PyStr(<<"Anytown">>), state |-> PyStr(<<"WY">>),
       zip_code |-> PyStr(<<"12345">>), utm_source |-> PyStr(<<"partner">>),
       lead_source |-> PyStr(<<"google">>),
       custom_fields |-> PyDict([concern_level |-> PyNone])] }

LeadChoices ==
    { e @@ p @@ o : e \in EmailChoices, p \in PhoneChoices, o \in OtherFieldsChoices }

\* The criteria of _create_default_profile, and one criterion of each other
\* type _score_criteria knows, and criteria of a type it does not know.
Criterion(type, weight, positive, negative, threshold) ==
    [criteria_type |-> type, weight |-> weight, positive_values |-> positive,
     negative_values |-> negative, threshold_score |-> threshold]

default_criteria ==
    << Criterion("email_domain", 20,
                 <<<<"gmail.com">>, <<"yahoo.com">>, <<"outlook.com">>, <<"hotmail.com">>>>,
                 <<<<"tempmail.com">>, <<"10minutemail.com">>, <<"guerrillamail.com">>>>,
                 100),
       Criterion("phone_format", 15, <<<<"valid">>>>,
                 <<<<"invalid">>, <<"placeholder">>>>, 100),
       Criterion("address_validity", 10, <<<<"complete">>>>,
                 <<<<"incomplete">>, <<"invalid">>>>, 50),
       Criterion("utm_source", 10,
                 <<<<"google">>, <<"facebook">>, <<"referral">>, <<"partner">>>>,
                 <<<<"spam">>, <<"bot">>>>, 50) >>

UnknownThresholdChoices == {-100, 50, 200}

CriterionChoices ==
    { default_criteria[i] : i \in 1..Len(default_criteria) }
    \cup { Criterion("lead_source", 10,
                     <<<<"google">>, <<"facebook">>, <<"referral">>, <<"partner">>>>,
                     <<<<"spam">>, <<"bot">>>>, 50),
           Criterion("name_completeness", 10, <<>>, <<>>, 0),
           Criterion("credit_concern_level", 10, <<>>, <<>>, 0),
           Criterion("demographic_fit", 5, <<>>, <<>>, 0) }
    \cup { Criterion("custom_rule", 10, <<>>, <<>>, t) : t \in UnknownThresholdChoices }

CriteriaLists == UNION { [1..n -> CriterionChoices] : n \in 0..MaxCriteria }

ThresholdChoices ==
    { [auto_qualify_threshold |-> 700, require_review_threshold |-> 500,
       disqualify_threshold |-> 300],
      [auto_qualify_threshold |-> 800, require_review_threshold |-> 600,
       disqualify_threshold |-> 0] }

ProfileChoices ==
    { [id |-> "profile-1", name |-> "Lead Profile", criteria |-> c] @@ t :
        c \in CriteriaLists, t \in ThresholdChoices }

(***************************************************************************)
(* SpecLead: one lead, one profile lookup, score_lead applied to them.     *)
(***************************************************************************)
ScoreLead ==
    /\ leadResult' = score_lead(lead, profile)
    /\ UNCHANGED <<lead, profile>>
    /\ UNCHANGED otherThanLead

InitLead ==
    /\ lead \in LeadChoices
    /\ profile \in { None } \cup { Some(p) : p \in ProfileChoices }
    /\ leadResult = [scoring_profile_used |-> "none"]
    /\ OthersIdle("lead")

NextLead == ScoreLead

SpecLead == InitLead /\ [][NextLead]_vars

(***************************************************************************)
(* SpecClassify: _determine_qualification_status applied, one score result *)
(* after another, under one profile and one confidence.                    *)
(***************************************************************************)
MaxScoreTicks == 20
ScoreGrid == { 50 * k : k \in 0..MaxScoreTicks }
ThresholdGrid == {0, 300, 500, 700, 1000}
ConfidenceChoices ==
    { [num |-> 2, den |-> 20], [num |-> 9, den |-> 20], [num |-> 10, den |-> 20] }

DetermineStatus ==
    /\ \E s \in ScoreGrid :
          clsLast' =
            [score |-> s,
             status |-> _determine_qualification_status(
                            [total_score |-> s, confidence |-> clsConfidence],
                            clsProfile)]
    /\ clsPrev' = clsLast
    /\ UNCHANGED <<clsProfile, clsConfidence>>
    /\ UNCHANGED otherThanClassify

InitClassify ==
    /\ clsProfile \in [auto_qualify_threshold : ThresholdGrid,
                       require_review_threshold : ThresholdGrid,
                       disqualify_threshold : ThresholdGrid]
    /\ clsConfidence \in ConfidenceChoices
    /\ clsPrev = NotClassified
    /\ clsLast = NotClassified
    /\ OthersIdle("classify")

NextClassify == DetermineStatus

SpecClassify == InitClassify /\ [][NextClassify]_vars

(***************************************************************************)
(* Claims about score_lead, stated on the lead, the profile lookup and the *)
(* result dict.                                                            *)
(***************************************************************************)
LeadScored == leadResult.scoring_profile_used # "none"
IsErrorFallback == leadResult.scoring_profile_used = "error_fallback"

\* C6: for every profile whose criteria have weight > 0, whatever their types
\* and threshold_score values, and every lead, the normalized score of the
\* result lies in [0, 10] and its confidence in [0.1, 1.0].
C6_ScoreAndConfidenceInRange ==
    LeadScored =>
        /\ 0 <= leadResult.score /\ leadResult.score <= 1000
        /\ 10 * leadResult.confidence_level.num >= leadResult.confidence_level.den
        /\ leadResult.confidence_level.num <= leadResult.confidence_level.den

\* C9: scoring a lead against a profile with zero criteria does not raise and
\* gives score 0, confidence 0.1 and status manual_review, whatever the lead
\* holds.
C9_ZeroCriteriaNeutral ==
    (LeadScored /\ \E p \in profile : p.criteria = <<>>) =>
        /\ ~ IsErrorFallback
        /\ leadResult.score = 0
        /\ 10 * leadResult.confidence_level.num = leadResult.confidence_level.den
        /\ leadResult.qualification_status = "manual_review"

\* The lead field a criterion reads its fact from, and the reason it gives
\* when the fact is not there.
NeededFact ==
    [email_domain |-> "email", phone_format |-> "phone", utm_source |-> "utm_source"]
NotProvidedReason ==
    [email_domain |-> <<"No email provided">>,
     phone_format |-> <<"No phone number provided">>,
     utm_source |-> <<"No UTM source provided">>]
FactMissing(lead_data, field) ==
    \/ field \notin DOMAIN lead_data
    \/ lead_data[field] = PyNone
    \/ lead_data[field] = PyStr(<<>>)

\* C10: when the fact a criterion needs is missing from the lead (key absent,
\* empty, or None as the request model gives for an unset field), the result
\* is a computed score and not the error fallback, and its breakdown gives
\* that criterion 0.0 with a "not provided" reason.
C10_MissingFactScoresZero ==
    LeadScored =>
        \A p \in profile : \A i \in DOMAIN p.criteria :
            LET ct == p.criteria[i].criteria_type IN
            (ct \in DOMAIN NeededFact /\ FactMissing(lead, NeededFact[ct])) =>
                /\ ~ IsErrorFallback
                /\ ct \in DOMAIN leadResult.breakdown
                /\ leadResult.breakdown[ct].raw_score = 0
                /\ leadResult.breakdown[ct].reasoning = NotProvidedReason[ct]

(***************************************************************************)
(* Claims about _determine_qualification_status, stated on the profile,    *)
(* the confidence and the last two classifications.                        *)
(***************************************************************************)
TierRank ==
    [auto_disqualified |-> 0, manual_review |-> 1,
     review_required |-> 2, auto_qualified |-> 3]
Classified(c) == c.status # "none"
ThresholdsOrdered ==
    /\ clsProfile.disqualify_threshold <= clsProfile.require_review_threshold
    /\ clsProfile.require_review_threshold <= clsProfile.auto_qualify_threshold
LowConfidence == 2 * clsConfidence.num < clsConfidence.den
AdjustedQualify ==
    clsProfile.auto_qualify_threshold - (IF LowConfidence THEN 100 ELSE 0)
AdjustedReview ==
    clsProfile.require_review_threshold - (IF LowConfidence THEN 50 ELSE 0)

\* C7: under a profile with disqualify_threshold <= require_review_threshold
\* <= auto_qualify_threshold and one confidence, of two classified scores the
\* higher one never gets the lower tier in the order auto_disqualified <
\* manual_review < review_required < auto_qualified.
C7_ClassificationMonotone ==
    (ThresholdsOrdered /\ Classified(clsPrev) /\ Classified(clsLast)) =>
        /\ clsPrev.score <= clsLast.score =>
              TierRank[clsPrev.status] <= TierRank[clsLast.status]
        /\ clsPrev.score >= clsLast.score =>
              TierRank[clsPrev.status] >= TierRank[clsLast.status]

C7_Witness ==
    /\ ThresholdsOrdered /\ LowConfidence
    /\ clsPrev.score > clsLast.score
    /\ clsPrev.status = "review_required"
    /\ clsLast.status = "manual_review"

\* C8 as stated: auto_disqualified is returned only for scores at or below
\* disqualify_threshold, and every score strictly between
\* require_review_threshold and auto_qualify_threshold is manual_review.
C8_BetweenReviewAndQualifyIsManual ==
    (ThresholdsOrdered /\ ~ LowConfidence /\ Classified(clsLast)) =>
        /\ clsLast.status = "auto_disqualified" =>
              clsLast.score <= clsProfile.disqualify_threshold
        /\ ( /\ clsLast.score > clsProfile.require_review_threshold
             /\ clsLast.score < clsProfile.auto_qualify_threshold ) =>
              clsLast.status = "manual_review"

\* C8 amended: auto_disqualified is returned only for scores at or below
\* disqualify_threshold; every score above disqualify_threshold and below
\* both confidence-adjusted thresholds is manual_review; every score from the
\* adjusted review threshold up to, not including, the adjusted qualify
\* threshold is review_required.
C8_TierBands ==
    Classified(clsLast) =>
        /\ clsLast.status = "auto_disqualified" =>
              clsLast.score <= clsProfile.disqualify_threshold
        /\ ( /\ clsLast.score > clsProfile.disqualify_threshold
             /\ clsLast.score < AdjustedReview
             /\ clsLast.score < AdjustedQualify ) =>
              clsLast.status = "manual_review"
        /\ ( /\ clsLast.score >= AdjustedReview
             /\ clsLast.score < AdjustedQualify ) =>
              clsLast.status = "review_required"

C8_Witness ==
    /\ ThresholdsOrdered /\ LowConfidence
    /\ clsPrev.score > clsProfile.require_review_threshold
    /\ clsPrev.score < clsProfile.auto_qualify_threshold
    /\ clsPrev.status = "review_required"
    /\ clsLast.score > clsProfile.disqualify_threshold
    /\ clsLast.score < AdjustedReview
    /\ clsLast.status = "manual_review"

(***************************************************************************)
(* SpecDefaultProfile: score_lead calls without a profile_id, in flight    *)
(* together.  _get_default_scoring_profile awaits its select, and          *)
(* _create_default_profile awaits its insert: other calls run in between.  *)
(***************************************************************************)
MaxCalls == 3
Organizations == {"org-1", "org-2"}

ProfileRow(id, organization_id, name, is_default) ==
    [id |-> id, organization_id |-> organization_id, name |-> name,
     is_default |-> is_default, is_active |-> TRUE]

\* profile_data of _create_default_profile, as the insert stores it.
DefaultProfileData(id, organization_id) ==
    ProfileRow(id, organization_id, "Default Credit Repair Lead Profile", TRUE)

\* The select of _get_default_scoring_profile: result.data.
DefaultProfilesOf(table, organization_id) ==
    SelectSeq(table, LAMBDA r : /\ r.organization_id = organization_id
                               /\ r.is_default
                               /\ r.is_active)

CallStart == [pc |-> "start", organization_id |-> "none", profile |-> None]

\* _get_default_scoring_profile up to the result of its select: the row
\* found is returned, or _create_default_profile is entered.
GetDefaultScoringProfile(c) ==
    /\ dpCalls[c].pc = "start"
    /\ \E org \in Organizations :
         LET data == DefaultProfilesOf(profilesTable, org) IN
         dpCalls' = [dpCalls EXCEPT ![c] =
                       IF data # <<>>
                         THEN [pc |-> "scored", organization_id |-> org,
                               profile |-> Some(data[1])]
                         ELSE [pc |-> "creating", organization_id |-> org,
                               profile |-> None]]
    /\ UNCHANGED profilesTable
    /\ UNCHANGED otherThanDefaultProfile

\* _create_default_profile: the insert, and the rest of score_lead with the
\* row inserted.
CreateDefaultProfile(c) ==
    /\ dpCalls[c].pc = "creating"
    /\ LET row == DefaultProfileData(Len(profilesTable) + 1,
                                     dpCalls[c].organization_id) IN
         /\ profilesTable' = Append(profilesTable, row)
         /\ dpCalls' = [dpCalls EXCEPT ![c].pc = "scored",
                                       ![c].profile = Some(row)]
    /\ UNCHANGED otherThanDefaultProfile

InitialProfileTables ==
    { <<>>, << ProfileRow(1, "org-1", "Custom Profile", FALSE) >> }

InitDefaultProfile ==
    /\ profilesTable \in InitialProfileTables
    /\ dpCalls = [c \in 1..MaxCalls |-> CallStart]
    /\ OthersIdle("default_profile")

NextDefaultProfile ==
    \E c \in 1..MaxCalls :
        \/ GetDefaultScoringProfile(c)
        \/ CreateDefaultProfile(c)

SpecDefaultProfile == InitDefaultProfile /\ [][NextDefaultProfile]_vars

\* C11: after any interleaving of score_lead calls for an organization that
\* had no default profile, exactly one default profile exists for it: the
\* first call creates it and no later or concurrent call creates a second.
CallsScoredFor(org) ==
    { c \in DOMAIN dpCalls :
        dpCalls[c].pc = "scored" /\ dpCalls[c].organization_id = org }

C11_OneDefaultProfile ==
    \A org \in Organizations :
        /\ Len(DefaultProfilesOf(profilesTable, org)) <= 1
        /\ (CallsScoredFor(org) # {} =>
               Len(DefaultProfilesOf(profilesTable, org)) = 1)

(***************************************************************************)
(* Bureau targeting (services/automation.py, BureauTargetingService).      *)
(*                                                                         *)
(* confidence_score is in hundredths.  A relevance is the fraction         *)
(* num/den: 0.8, 0.6 or 0.4 for the rule type that matches, plus           *)
(* 0.3 * success_history / max(total_applications, 1), at most 1.0.        *)
(***************************************************************************)
MaxRules == 2

Fraction(num, den) == [num |-> num, den |-> den]
FracLess(a, b) == a.num * b.den < b.num * a.den

\* keyword in account_name, on token sequences
Contains(toks, sub) ==
    \E i \in 0..(Len(toks) - Len(sub)) : SubSeq(toks, i + 1, i + Len(sub)) = sub

\* The rows with is_active, by confidence_score descending (rows of equal
\* confidence_score stay in table order).
RECURSIVE OrderByConfidenceDesc(_)
OrderByConfidenceDesc(rows) ==
    IF rows = <<>> THEN <<>>
    ELSE LET best == CHOOSE i \in 1..Len(rows) :
                        /\ \A j \in 1..Len(rows) :
                              rows[j].confidence_score <= rows[i].confidence_score
                        /\ \A j \in 1..(i - 1) :
                              rows[j].confidence_score < rows[i].confidence_score
         IN  <<rows[best]>> \o
             OrderByConfidenceDesc(SubSeq(rows, 1, best - 1) \o
                                   SubSeq(rows, best + 1, Len(rows)))

_get_targeting_rules(table) ==
    OrderByConfidenceDesc(SelectSeq(table, LAMBDA r : r.is_active))

\* _calculate_rule_relevance(rule, dispute_data, client_history); raises
\* when account_name is None and the rule is account_based.
RelevanceRaises(rule, dispute_data) ==
    /\ rule.rule_type = "account_based"
    /\ ~ IsStr(Get(dispute_data, "account_name", PyStr(<<>>)))

TypeRelevanceTenths(rule, dispute_data, client_history) ==
    LET criteria == rule.criteria IN
    CASE rule.rule_type = "dispute_type_based" ->
           IF /\ "dispute_type" \in DOMAIN dispute_data
              /\ "dispute_types" \in DOMAIN criteria
              /\ InList(dispute_data["dispute_type"], criteria["dispute_types"])
             THEN 8 ELSE 0
      [] rule.rule_type = "account_based" ->
           LET account_name ==
                   StrLower(Get(dispute_data, "account_name", PyStr(<<>>)).s)
               keywords == IF "account_keywords" \in DOMAIN criteria
                             THEN criteria["account_keywords"] ELSE <<>>
           IN  IF \E k \in 1..Len(keywords) :
                     Contains(account_name, StrLower(keywords[k]))
                 THEN 6 ELSE 0
      [] rule.rule_type = "client_history_based" ->
           IF client_history # None /\ DOMAIN TheValue(client_history) # {}
             THEN LET avg_disputes ==
                          Get(TheValue(client_history), "avg_disputes_per_month", 0)
                      max_avg == Get(criteria, "max_avg_disputes", 10)
                  IN  IF avg_disputes < max_avg THEN 4 ELSE 0
             ELSE 0
      [] OTHER -> 0

_calculate_rule_relevance(rule, dispute_data, client_history) ==
    LET total == Max(IF rule.total_applications = None THEN 1
                     ELSE TheValue(rule.total_applications), 1)
        den == 10 * total
        num == TypeRelevanceTenths(rule, dispute_data, client_history) * total
               + 3 * rule.success_history
    IN  Fraction(Min(num, den), den)

_get_alternative_bureaus(recommended_bureaus) ==
    LET all_bureaus == <<"equifax", "experian", "transunion">> IN
    IF \E i \in 1..Len(recommended_bureaus) : recommended_bureaus[i] = "all"
      THEN all_bureaus
      ELSE SelectSeq(all_bureaus,
                     LAMBDA b : \A i \in 1..Len(recommended_bureaus) :
                                   recommended_bureaus[i] # b)

\* The loop of _apply_targeting_rules: best is [rule, score] after the first
\* n rules, rule being an index into rules or 0 for None.
RECURSIVE BestRule(_, _, _, _)
\* A faulty variant: a later rule of equal relevance replaces the best one.
BestRule_LastOfEqual(rules, n, dispute_data, client_history) ==
    IF n = 0 THEN [rule |-> 0, score |-> Fraction(0, 1)]
    ELSE CHOOSE out \in
           { IF ~ FracLess(score, best.score)
               THEN [rule |-> n, score |-> score] ELSE best :
               best \in { BestRule(rules, n - 1, dispute_data, client_history) },
               score \in { _calculate_rule_relevance(rules[n], dispute_data,
                                                      client_history) } } :
           TRUE

BestRule(rules, n, dispute_data, client_history) ==
    IF n = 0 THEN [rule |-> 0, score |-> Fraction(0, 1)]
    ELSE CHOOSE out \in
           { IF FracLess(best.score, score)
               THEN [rule |-> n, score |-> score] ELSE best :
               best \in { BestRule(rules, n - 1, dispute_data, client_history) },
               score \in { _calculate_rule_relevance(rules[n], dispute_data,
                                                      client_history) } } :
           TRUE

DefaultAllBureaus ==
    [bureaus |-> <<"all">>, confidence |-> 60, rule_name |-> "default_all_bureaus",
     alternatives |-> <<"equifax", "experian", "transunion">>,
     reasoning |-> <<"Default recommendation - target all bureaus">>]

FallbackDefault ==
    [bureaus |-> <<"all">>, confidence |-> 50, rule_name |-> "fallback_default",
     alternatives |-> <<"equifax", "experian", "transunion">>,
     reasoning |-> <<"No specific rule matched, using safe default">>]

AppliedRule(best_rule) ==
    [bureaus |-> best_rule.recommended_bureaus,
     confidence |-> best_rule.confidence_score,
     rule_name |-> best_rule.name,
     alternatives |-> _get_alternative_bureaus(best_rule.recommended_bureaus),
     reasoning |-> <<"Applied rule", best_rule.name>>]

_apply_targeting_rules(dispute_data, rules, client_history) ==
    IF rules = <<>> THEN DefaultAllBureaus
    ELSE CHOOSE out \in
           { IF best.rule = 0 \/ FracLess(best.score, Fraction(3, 10))
               THEN FallbackDefault
               ELSE AppliedRule(rules[best.rule]) :
               best \in { BestRule(rules, Len(rules), dispute_data,
                                   client_history) } } :
           TRUE

\* The except branch of recommend_bureaus.
BureauErrorDefault ==
    [recommended_bureaus |-> <<"all">>, confidence_score |-> 50,
     rule_applied |-> "default",
     alternatives |-> <<"equifax", "experian", "transunion">>,
     reasoning |-> <<"Default fallback recommendation">>]

BureauRecommendation(recommendations) ==
    [recommended_bureaus |-> recommendations.bureaus,
     confidence_score |-> recommendations.confidence,
     rule_applied |-> recommendations.rule_name,
     alternatives |-> recommendations.alternatives,
     reasoning |-> recommendations.reasoning]

recommend_bureaus(table, dispute_data, client_history) ==
    CHOOSE out \in
      { IF \E i \in 1..Len(rules) : RelevanceRaises(rules[i], dispute_data)
          THEN BureauErrorDefault
          ELSE BureauRecommendation(
                   _apply_targeting_rules(dispute_data, rules, client_history)) :
          rules \in { _get_targeting_rules(table) } } :
      TRUE

(***************************************************************************)
(* SpecBureau: recommend_bureaus applied to a rules table, a dispute and a *)
(* client history.                                                         *)
(***************************************************************************)
TargetingRule(name, rule_type, criteria, bureaus, confidence, successes, total, active) ==
    [name |-> name, rule_type |-> rule_type, criteria |-> criteria,
     recommended_bureaus |-> bureaus, confidence_score |-> confidence,
     success_history |-> successes,
     total_applications |-> total, is_active |-> active]

RuleChoices ==
    { TargetingRule("Collection Rule", "dispute_type_based",
                    [dispute_types |-> <<"collection">>],
                    <<"equifax", "experian">>, 80, 0, None, TRUE),
      TargetingRule("Account Rule", "account_based",
                    [account_keywords |-> << <<"Capital">>, <<"Chase">> >>],
                    <<"transunion">>, 70, 1, Some(1), TRUE),
      TargetingRule("History Rule", "client_history_based",
                    [max_avg_disputes |-> 5],
                    <<"all">>, 60, 1, Some(4), TRUE),
      TargetingRule("Quiet Client Rule", "client_history_based",
                    EmptyDict,
                    <<"experian">>, 55, 2, Some(1), TRUE),
      TargetingRule("No Bureau Rule", "dispute_type_based",
                    [dispute_types |-> <<"collection", "inquiry">>],
                    <<>>, 90, 0, Some(0), TRUE),
      TargetingRule("Retired Rule", "dispute_type_based",
                    [dispute_types |-> <<"collection">>],
                    <<"equifax">>, 100, 4, Some(4), FALSE),
      TargetingRule("Other Rule", "seasonal",
                    EmptyDict,
                    <<"equifax">>, 65, 2, Some(4), TRUE),
      TargetingRule("Inquiry Rule", "dispute_type_based",
                    [dispute_types |-> <<"inquiry">>],
                    <<"experian", "transunion">>, 75, 4, None, TRUE) }

RuleTables == UNION { [1..n -> RuleChoices] : n \in 0..MaxRules }

DisputeTypeChoices ==
    { NoKeys, [dispute_type |-> "collection"], [dispute_type |-> "inquiry"] }
AccountNameChoices ==
    { NoKeys,
      [account_name |-> PyStr(<<"Capital", " ", "One", " ", "Credit", " ", "Card">>)],
      [account_name |-> PyStr(<<"Local", " ", "Bank">>)],
      [account_name |-> PyNone] }
DisputeChoices ==
    { t @@ a : t \in DisputeTypeChoices, a \in AccountNameChoices }
ClientHistoryChoices ==
    { None, Some(EmptyDict), Some([avg_disputes_per_month |-> 2]),
      Some([avg_disputes_per_month |-> 12]) }

RecommendBureaus ==
    /\ bureauResult' = recommend_bureaus(bureauRules, bureauDispute, bureauHistory)
    /\ UNCHANGED <<bureauRules, bureauDispute, bureauHistory>>
    /\ UNCHANGED otherThanBureau

InitBureau ==
    /\ bureauRules \in RuleTables
    /\ bureauDispute \in DisputeChoices
    /\ bureauHistory \in ClientHistoryChoices
    /\ bureauResult = [rule_applied |-> "none"]
    /\ OthersIdle("bureau")

NextBureau == RecommendBureaus

SpecBureau == InitBureau /\ [][NextBureau]_vars

(***************************************************************************)
(* Claims about recommend_bureaus, stated on the rules table, the dispute, *)
(* the client history and the result dict.                                 *)
(***************************************************************************)
BureausRecommended == bureauResult.rule_applied # "none"
ActiveRules == _get_targeting_rules(bureauRules)
RelevanceOf(i) ==
    _calculate_rule_relevance(ActiveRules[i], bureauDispute, bureauHistory)
RelevanceComputed ==
    \A i \in 1..Len(ActiveRules) : ~ RelevanceRaises(ActiveRules[i], bureauDispute)
Relevant(i) == ~ FracLess(RelevanceOf(i), Fraction(3, 10))

\* C12: recommend_bureaus returns a non-empty list of recommended bureaus on
\* every path (a rule applied, no rule relevant enough, no rules, an internal
\* error); with zero rules it returns exactly ["all"] with a confidence
\* between 0.5 and 0.7.
C12_RecommendationNeverEmpty ==
    BureausRecommended =>
        /\ bureauResult.recommended_bureaus # <<>>
        /\ (ActiveRules = <<>> =>
               /\ bureauResult.recommended_bureaus = <<"all">>
               /\ bureauResult.confidence_score >= 50
               /\ bureauResult.confidence_score <= 70)

\* The rule the claim names: of highest relevance, the first in list order
\* among those of equal relevance.
HighestRelevance ==
    CHOOSE k \in 1..Len(ActiveRules) :
        /\ \A j \in 1..Len(ActiveRules) : ~ FracLess(RelevanceOf(k), RelevanceOf(j))
        /\ \A j \in 1..(k - 1) : FracLess(RelevanceOf(j), RelevanceOf(k))

MaxRetryCount == 3
RateUnit == 10000000

RECURSIVE Pow2(_)
Pow2(n) == IF n = 0 THEN 1 ELSE 2 * Pow2(n - 1)

\* amount_tiers is a dict: its items, in the dict's order.
Tier(name, config) == [name |-> name, config |-> config]

\* Faulty variant: the upper bound of a tier is taken as inclusive.
_get_amount_tier_MaxInclusive(amount_cents, amount_tiers) ==
    LET Matches(i) ==
            LET tier_config == amount_tiers[i].config IN
            /\ Get(tier_config, "min_amount", 0) * 100 <= amount_cents
            /\ ("max_amount" \in DOMAIN tier_config =>
                   amount_cents <= tier_config["max_amount"] * 100)
        hits == { i \in 1..Len(amount_tiers) : Matches(i) }
        medium == { i \in 1..Len(amount_tiers) : amount_tiers[i].name = "medium" }
    IN  IF hits # {}
          THEN amount_tiers[CHOOSE i \in hits : \A j \in hits : i <= j].config
        ELSE IF medium # {}
          THEN amount_tiers[CHOOSE i \in medium : TRUE].config
        ELSE [strategy |-> "exponential", delay_multiplier |-> 10]

\* _get_amount_tier(amount, amount_tiers), amount = amount_cents / 100:
\* the first tier with min_amount <= amount < max_amount (0 and infinity
\* when the key is absent), else the 'medium' tier, else a built-in one.
_get_amount_tier(amount_cents, amount_tiers) ==
    LET Matches(i) ==
            LET tier_config == amount_tiers[i].config IN
            /\ Get(tier_config, "min_amount", 0) * 100 <= amount_cents
            /\ ("max_amount" \in DOMAIN tier_config =>
                   amount_cents < tier_config["max_amount"] * 100)
        hits == { i \in 1..Len(amount_tiers) : Matches(i) }
        medium == { i \in 1..Len(amount_tiers) : amount_tiers[i].name = "medium" }
    IN  IF hits # {}
          THEN amount_tiers[CHOOSE i \in hits : \A j \in hits : i <= j].config
        ELSE IF medium # {}
          THEN amount_tiers[CHOOSE i \in medium : TRUE].config
        ELSE [strategy |-> "exponential", delay_multiplier |-> 10]

\* _estimate_success_rate(retry_count, strategy, amount)
base_rates == <<7, 5, 3, 2>>
StrategyModifier(strategy) ==
    CASE strategy = "exponential" -> 9
      [] strategy = "linear" -> 10
      [] strategy = "fixed" -> 11
      [] OTHER -> 10
\* max(0.5, 1.2 - amount / 1000), in hundred-thousandths
AmountModifier(amount_cents) == Max(50000, 120000 - amount_cents)
ClampRate(rate) == Max(RateUnit \div 20, Min(19 * (RateUnit \div 20), rate))

_estimate_success_rate(retry_count, strategy, amount_cents) ==
    ClampRate(base_rates[Min(retry_count, 3) + 1]
              * StrategyModifier(strategy)
              * AmountModifier(amount_cents))

\* _get_dunning_email_step(retry_count, organization_id)
_get_dunning_email_step(T, retry_count) ==
    LET hits == { r \in T : r.step_number = retry_count + 1 /\ r.is_active }
    IN  IF hits = {} THEN None ELSE Some(CHOOSE r \in hits : TRUE)

\* _create_default_config: default_config
default_config ==
    [name |-> "Default Retry Strategy",
     strategy |-> "exponential",
     initial_delay_hours |-> 24,
     max_retries |-> 3,
     amount_tiers |->
        << Tier("low", [max_amount |-> 100, strategy |-> "fixed",
                        delay_multiplier |-> 5]),
           Tier("medium", [min_amount |-> 100, max_amount |-> 500,
                           strategy |-> "linear", delay_multiplier |-> 10]),
           Tier("high", [min_amount |-> 500, strategy |-> "exponential",
                         delay_multiplier |-> 15]) >>,
     is_active |-> TRUE]

\* The tier of _calculate_retry_strategy
TierOf(payment_data, config) ==
    _get_amount_tier(payment_data.amount_cents, config.amount_tiers)

DelayTenths(strategy, initial_delay, retry_count, multiplier) ==
    CASE strategy = "exponential" -> initial_delay * Pow2(retry_count) * multiplier
      [] strategy = "linear" -> initial_delay * (retry_count + 1) * multiplier
      [] OTHER -> initial_delay * multiplier

_calculate_retry_strategy(payment_data, config, tier, steps) ==
    LET retry_count == payment_data.retry_count
        amount_cents == payment_data.amount_cents
        strategy == Get(tier, "strategy", config.strategy)
        multiplier == Get(tier, "delay_multiplier", 10)
    IN  [retry_count |-> retry_count + 1,
         next_retry_date |->
             DelayTenths(strategy, config.initial_delay_hours, retry_count,
                         multiplier),
         strategy |-> strategy,
         amount_to_charge |-> amount_cents,
         payment_method |-> "same_as_failed",
         dunning_step |-> _get_dunning_email_step(steps, retry_count),
         success_rate |-> _estimate_success_rate(retry_count, strategy,
                                                 amount_cents)]

\* The except branch of get_next_retry_strategy.
SafeDefaultStrategy ==
    [retry_count |-> 1,
     next_retry_date |-> 240,
     strategy |-> "safe_default",
     amount_to_charge |-> 0,
     payment_method |-> "none",
     dunning_email_sequence |-> None,
     estimated_success_rate |-> 3 * (RateUnit \div 10)]

RetryStrategyResult(retry_strategy) ==
    [retry_count |-> retry_strategy.retry_count,
     next_retry_date |-> retry_strategy.next_retry_date,
     strategy |-> retry_strategy.strategy,
     amount_to_charge |-> retry_strategy.amount_to_charge,
     payment_method |-> retry_strategy.payment_method,
     dunning_email_sequence |-> retry_strategy.dunning_step,
     estimated_success_rate |-> retry_strategy.success_rate]

\* get_next_retry_strategy(failed_payment_id, organization_id), one whole
\* call: the config it works with is inserted when none is found.
GetNextRetryStrategy ==
    /\ IF retryPayment = None
         THEN \* ValueError("Failed payment not found"), caught
              /\ retryResult' = SafeDefaultStrategy
              /\ UNCHANGED <<retryConfig, retryTier>>
         ELSE LET payment_data == TheValue(retryPayment)
                  config == IF retryConfig = None THEN default_config
                            ELSE TheValue(retryConfig)
                  tier == TierOf(payment_data, config)
              IN  /\ retryConfig' = Some(config)
                  /\ retryTier' = Some(tier)
                  /\ retryResult' =
                        RetryStrategyResult(
                            _calculate_retry_strategy(payment_data, config, tier,
                                                      dunSteps))
    /\ UNCHANGED retryPayment
    /\ UNCHANGED otherThanRetry

AmountCentsGrid == {0, 5000, 9900, 9999, 10000, 30000, 49999, 50000, 120000}
FailedPaymentChoices ==
    { [id |-> "payment-123", status |-> "failed", retry_count |-> r,
       amount_cents |-> a] : r \in 0..MaxRetryCount, a \in AmountCentsGrid }

RetryConfig(name, strategy, initial_delay_hours, amount_tiers) ==
    [name |-> name, strategy |-> strategy,
     initial_delay_hours |-> initial_delay_hours, max_retries |-> 3,
     amount_tiers |-> amount_tiers, is_active |-> TRUE]

RetryConfigChoices ==
    { default_config,
      RetryConfig("Medium Only", "exponential", 24,
                  << Tier("medium", [min_amount |-> 100, max_amount |-> 500,
                                     strategy |-> "exponential"]) >>),
      RetryConfig("No Tiers", "linear", 12, <<>>),
      RetryConfig("Gaps", "fixed", 24,
                  << Tier("small", [max_amount |-> 50, delay_multiplier |-> 5]),
                     Tier("large", [min_amount |-> 300, strategy |-> "linear",
                                    delay_multiplier |-> 20]) >>),
      RetryConfig("Overlap", "exponential", 48,
                  << Tier("most", [max_amount |-> 500, strategy |-> "fixed"]),
                     Tier("medium", [min_amount |-> 100, max_amount |-> 300,
                                     strategy |-> "linear",
                                     delay_multiplier |-> 10]) >>) }

InitRetry ==
    /\ retryPayment \in {None} \cup { Some(p) : p \in FailedPaymentChoices }
    /\ retryConfig \in {None} \cup { Some(c) : c \in RetryConfigChoices }
    /\ retryTier = None
    /\ retryResult = [strategy |-> "none"]
    /\ OthersIdle("retry")

NextRetry == GetNextRetryStrategy

SpecRetry == InitRetry /\ [][NextRetry]_vars

(***************************************************************************)
(* Claims about get_next_retry_strategy, stated on the payment row, the    *)
(* configuration, the tier used and the result dict.                       *)
(***************************************************************************)
RetryAnswered == retryResult.strategy # "none"
TierBoundsHold(tier_config, amount_cents) ==
    /\ (IF "min_amount" \in DOMAIN tier_config
          THEN tier_config["min_amount"] * 100 ELSE 0) <= amount_cents
    /\ ("max_amount" \in DOMAIN tier_config =>
           amount_cents < tier_config["max_amount"] * 100)
ConfiguredTiers == TheValue(retryConfig).amount_tiers
MatchingTiers ==
    { i \in 1..Len(ConfiguredTiers) :
        TierBoundsHold(ConfiguredTiers[i].config,
                       TheValue(retryPayment).amount_cents) }
MediumTiers ==
    { i \in 1..Len(ConfiguredTiers) : ConfiguredTiers[i].name = "medium" }

\* C14: the tier used for a failed payment is a configured tier with
\* min_amount <= amount < max_amount (no min meaning 0, no max meaning
\* unbounded); when no configured tier matches, the 'medium' tier's settings
\* are used; with the default tiers every non-negative amount matches
\* exactly one tier.
C14_AmountTier ==
    (RetryAnswered /\ retryPayment # None) =>
        /\ MatchingTiers # {} =>
              \E i \in MatchingTiers : retryTier = Some(ConfiguredTiers[i].config)
        /\ (MatchingTiers = {} /\ MediumTiers # {}) =>
              \E i \in MediumTiers : retryTier = Some(ConfiguredTiers[i].config)
        /\ ConfiguredTiers = default_config.amount_tiers =>
              Cardinality(MatchingTiers) = 1

C14_Witness ==
    /\ RetryAnswered /\ retryPayment # None
    /\ TheValue(retryPayment).amount_cents = 9900
    /\ MatchingTiers = {}
    /\ \E i \in MediumTiers : retryTier = Some(ConfiguredTiers[i].config)
    /\ retryResult.strategy = "exponential"

\* C15: for a failed payment of $50 at attempt 0 under the default retry
\* configuration, the policy applied and reported is exponential with tier
\* multiplier 0.5, the next retry is 12 hours after now, and the estimated
\* success rate is clamp(0.7 * 0.9 * 1.15, 0.05, 0.95).
C15_FiftyDollarsExponential ==
    ( /\ RetryAnswered /\ retryPayment # None
      /\ TheValue(retryPayment).amount_cents = 5000
      /\ TheValue(retryPayment).retry_count = 0
      /\ retryConfig = Some(default_config) ) =>
        /\ retryResult.strategy = "exponential"
        /\ retryTier # None /\ TheValue(retryTier).delay_multiplier = 5
        /\ retryResult.next_retry_date = 120
        /\ retryResult.estimated_success_rate = ClampRate(7 * 9 * 115000)

\* C16: when the failed-payment record does not exist,
\* get_next_retry_strategy reports a missing-input error and returns no
\* retry strategy (retry date, amount, success rate) for the payment.
C16_MissingPaymentReported ==
    (RetryAnswered /\ retryPayment = None) =>
        /\ "error" \in DOMAIN retryResult
        /\ "next_retry_date" \notin DOMAIN retryResult
        /\ "amount_to_charge" \notin DOMAIN retryResult
        /\ "estimated_success_rate" \notin DOMAIN retryResult

(***************************************************************************)
(* Round scheduling (services/automation.py, AutomatedSchedulingService).  *)
(*                                                                         *)
(* Waits and scheduled dates are in days, a date counted from utcnow();    *)
(* client_responsiveness_score is in tenths; a success probability is in   *)
(* ten-thousandths.                                                        *)
(***************************************************************************)
MaxRound == 3
\* Calls explored on one scheduled_tasks table.
MaxTasks == 2

_get_scheduling_rule(table, round_number) ==
    LET hits == { r \in table : r.round_number = round_number /\ r.is_active }
    IN  IF hits = {} THEN None ELSE Some(CHOOSE r \in hits : TRUE)

_get_client_preferences(prefs) ==
    IF prefs = None THEN EmptyDict ELSE TheValue(prefs)

\* The adjusted min_days and max_days of _calculate_optimal_schedule.
AdjustedWait(dispute_data, rule, prefs) ==
    LET faster == Get(dispute_data, "dispute_type", "") \in {"collection", "charge_off"}
        min_days == IF faster THEN Max(20, rule.min_wait_days - 5)
                    ELSE rule.min_wait_days
        max_days == IF faster THEN Max(30, rule.max_wait_days - 5)
                    ELSE rule.max_wait_days
        client_prefs == _get_client_preferences(prefs)
        frequent == /\ Get(dispute_data, "client_id", "") # ""
                    /\ Get(client_prefs, "prefers_frequent_updates", FALSE)
    IN  [min_days |-> IF frequent THEN Max(14, min_days - 10) ELSE min_days,
         max_days |-> max_days]

\* _calculate_optimal_schedule: the days added to utcnow()
_calculate_optimal_schedule(dispute_data, rule, prefs) ==
    LET wait == AdjustedWait(dispute_data, rule, prefs)
    IN  (wait.min_days + wait.max_days) \div 2

type_modifiers ==
    [inquiry |-> 11, late_payment |-> 9, collection |-> 7, charge_off |-> 6]

_estimate_success_probability(dispute_data, round_number) ==
    LET base_prob == Max(1, 7 - (round_number - 1))
        dispute_type == Get(dispute_data, "dispute_type", "")
        modifier == IF dispute_type \in DOMAIN type_modifiers
                      THEN type_modifiers[dispute_type] ELSE 10
        responsiveness_modifier ==
            80 + 4 * Get(dispute_data, "client_responsiveness_score", 5)
    IN  Max(500, Min(9500, base_prob * modifier * responsiveness_modifier))

_apply_default_scheduling(dispute_data, next_round) ==
    [next_round |-> next_round,
     scheduled_date |-> 30 + (next_round - 1) * 15,
     rule_applied |-> "default_progressive",
     follow_up_strategy |-> "standard",
     task_id |-> None,
     estimated_success_probability |-> 1000 * Max(1, 8 - next_round)]

\* The row _create_scheduled_task inserts; its id is its place in the table.
ScheduledTask(id, dispute_id, next_round, schedule_date, rule) ==
    [id |-> id, dispute_id |-> dispute_id, task_type |-> "dispute_round",
     task_data |-> [round_number |-> next_round, rule_applied |-> rule.name,
                    follow_up_strategy |-> rule.follow_up_strategy],
     scheduled_date |-> schedule_date, status |-> "scheduled"]

RuleScheduling(dispute_data, next_round, rule, schedule_date, task) ==
    [next_round |-> next_round,
     scheduled_date |-> schedule_date,
     rule_applied |-> rule.name,
     follow_up_strategy |-> rule.follow_up_strategy,
     task_id |-> Some(task.id),
     estimated_success_probability |->
         _estimate_success_probability(dispute_data, next_round)]

\* schedule_next_round(dispute_id, organization_id), one whole call.  With
\* no dispute row the ValueError is caught, and the except branch itself
\* raises on dispute_data.get: the call ends in an exception.
ScheduleNextRound ==
    /\ Len(schedTasks) < MaxTasks
    /\ IF schedDispute = None
         THEN /\ schedResult' = [rule_applied |-> "raised",
                                 exception |-> "AttributeError"]
              /\ UNCHANGED schedTasks
         ELSE LET dispute_data == TheValue(schedDispute)
                  next_round == Get(dispute_data, "round_number", 1) + 1
                  rule == _get_scheduling_rule(schedRules, next_round)
              IN  IF rule = None
                    THEN /\ schedResult' =
                               _apply_default_scheduling(dispute_data, next_round)
                         /\ UNCHANGED schedTasks
                    ELSE LET schedule_date ==
                                 _calculate_optimal_schedule(dispute_data,
                                                             TheValue(rule),
                                                             schedPrefs)
                             task == ScheduledTask(Len(schedTasks) + 1, dispute_data.id,
                                                   next_round, schedule_date,
                                                   TheValue(rule))
                         IN  /\ schedTasks' = Append(schedTasks, task)
                             /\ schedResult' =
                                   RuleScheduling(dispute_data, next_round,
                                                  TheValue(rule), schedule_date,
                                                  task)
    /\ UNCHANGED <<schedDispute, schedRules, schedPrefs>>
    /\ UNCHANGED otherThanSchedule

SchedulingRule(name, round_number, min_wait_days, max_wait_days, strategy, active) ==
    [name |-> name, round_number |-> round_number,
     min_wait_days |-> min_wait_days, max_wait_days |-> max_wait_days,
     follow_up_strategy |-> strategy, is_active |-> active]

RoundTwoRuleChoices ==
    { SchedulingRule("Round 2 Rule", 2, 25, 35, "standard", TRUE),
      SchedulingRule("Default Waits", 2, 30, 45, "standard", TRUE),
      SchedulingRule("Fast Follow-up", 2, 10, 20, "aggressive", TRUE),
      SchedulingRule("Wide Window", 2, 14, 61, "conservative", TRUE),
      SchedulingRule("Retired Rule", 2, 30, 45, "standard", FALSE) }
LaterRuleChoices ==
    { SchedulingRule("Later Rule", n, 40, 50, "conservative", TRUE) : n \in 3..MaxRound }
SchedulingRuleTables ==
    { two \cup later : two \in { {} } \cup { {r} : r \in RoundTwoRuleChoices },
                       later \in SUBSET LaterRuleChoices }

DisputeRows ==
    { [id |-> "dispute-123", round_number |-> n] @@ t @@ c @@ s :
        n \in 1..MaxRound,
        t \in { NoKeys } \cup
              { [dispute_type |-> d] :
                  d \in {"inquiry", "late_payment", "collection", "charge_off"} },
        c \in { [client_id |-> ""], [client_id |-> "client-456"] },
        s \in { NoKeys, [client_responsiveness_score |-> 0],
                [client_responsiveness_score |-> 10] } }

ClientPreferenceChoices ==
    { None, Some([prefers_frequent_updates |-> TRUE]),
      Some([prefers_frequent_updates |-> FALSE]) }

InitSchedule ==
    /\ schedDispute \in {None} \cup { Some(d) : d \in DisputeRows }
    /\ schedRules \in SchedulingRuleTables
    /\ schedPrefs \in ClientPreferenceChoices
    /\ schedTasks = <<>>
    /\ schedResult = [rule_applied |-> "none"]
    /\ OthersIdle("schedule")

NextSchedule == ScheduleNextRound

SpecSchedule == InitSchedule /\ [][NextSchedule]_vars

\* The last call scheduled the round from an organization rule.
ScheduledFromRule ==
    /\ schedResult.rule_applied \notin {"none", "raised", "default_progressive"}
    /\ schedDispute # None
ScheduledByDefault == schedResult.rule_applied = "default_progressive"
RuleUsed == TheValue(_get_scheduling_rule(schedRules, schedResult.next_round))

\* C17: when an organization rule exists for the next round, the scheduled
\* delay is the integer midpoint of the adjusted min and max wait days, and
\* it is never longer than the unadjusted midpoint
\* (min_wait_days + max_wait_days)/2 of the rule.
C17_AdjustmentsOnlyShorten ==
    ScheduledFromRule =>
        LET wait == AdjustedWait(TheValue(schedDispute), RuleUsed, schedPrefs)
        IN  /\ schedResult.scheduled_date = (wait.min_days + wait.max_days) \div 2
            /\ 2 * schedResult.scheduled_date
                   <= RuleUsed.min_wait_days + RuleUsed.max_wait_days

\* The success probability the formula gives for a dispute and a round:
\* clamp(max(0.1, 0.7 - 0.1 x (round - 1)) x type_modifier
\*       x responsiveness_modifier, 0.05, 0.95), in ten-thousandths.
FormulaProbability(dispute_data, round_number) ==
    LET dispute_type == Get(dispute_data, "dispute_type", "")
        type_modifier == CASE dispute_type = "inquiry" -> 11
                           [] dispute_type = "late_payment" -> 9
                           [] dispute_type = "collection" -> 7
                           [] dispute_type = "charge_off" -> 6
                           [] OTHER -> 10
        score == Get(dispute_data, "client_responsiveness_score", 5)
        product == Max(1, 7 - (round_number - 1)) * type_modifier * (80 + 4 * score)
    IN  IF product < 500 THEN 500 ELSE IF product > 9500 THEN 9500 ELSE product

\* C18: the estimated success probability schedule_next_round returns is
\* the clamped product of the formula, whether the round is scheduled from
\* an organization rule or from the default progressive cadence.
C18_ProbabilityFollowsFormula ==
    (ScheduledFromRule \/ ScheduledByDefault) =>
        schedResult.estimated_success_probability
            = FormulaProbability(TheValue(schedDispute), schedResult.next_round)

(***************************************************************************)
(* Churn prediction (services/churn_prediction.py).                        *)
(*                                                                         *)
(* A row's created_at is held as its age in days at the time of the call;  *)
(* a factor's weight is in halves and its impact_score in tenths; a        *)
(* confidence score and a returned churn probability are in thousandths.   *)
(* A risk factor's description and current_value texts, the client's name  *)
(* and the time stamps of a response are not carried, nor is the           *)
(* average_churn_probability of the summary.                               *)
(***************************************************************************)
MaxClients == 2

RiskFactor(factor_name, weight, risk_level, impact_score) ==
    [factor_name |-> factor_name, weight |-> weight,
     risk_level |-> risk_level, impact_score |-> impact_score]

\* The rows of a list created within the last `days` days.
Recent(rows, days) == SelectSeq(rows, LAMBDA r : r.created_days_ago < days)
IsSent(c) == c.status \in {"sent", "delivered"}
IsOpened(c) == c.opened
IsClicked(c) == c.click_count > 0

_analyze_engagement_risk(client_history) ==
    LET communications == client_history.communications
        sent_emails == Len(SelectSeq(communications, IsSent))
        opened_emails == Len(SelectSeq(communications, IsOpened))
        clicked_emails == Len(SelectSeq(communications, IsClicked))
    IN  IF communications = <<>>
          THEN RiskFactor("communication_engagement", 4, "medium", 5)
        ELSE IF sent_emails = 0
          THEN RiskFactor("communication_engagement", 4, "high", 8)
        ELSE IF Recent(communications, 30) = <<>>
          THEN RiskFactor("communication_engagement", 4, "high", 9)
        \* open_rate < 0.2 and click_rate < 0.05
        ELSE IF 5 * opened_emails < sent_emails /\ 20 * clicked_emails < sent_emails
          THEN RiskFactor("communication_engagement", 4, "medium", 6)
        ELSE RiskFactor("communication_engagement", 4, "low", 2)

IsFailedPayment(p) == p.status = "failed"

_analyze_payment_risk(client_history) ==
    LET payments == client_history.payments
        failed_payments == SelectSeq(payments, IsFailedPayment)
        total_attempts == Len(payments)
    IN  IF payments = <<>>
          THEN RiskFactor("payment_behavior", 5, "medium", 5)
        ELSE IF Recent(failed_payments, 60) # <<>>
          THEN RiskFactor("payment_behavior", 5, "high", 9)
        \* failure_rate > 0.3
        ELSE IF 10 * Len(failed_payments) > 3 * total_attempts
          THEN RiskFactor("payment_behavior", 5, "high", 8)
        \* failure_rate > 0.1
        ELSE IF 10 * Len(failed_payments) > total_attempts
          THEN RiskFactor("payment_behavior", 5, "medium", 6)
        ELSE RiskFactor("payment_behavior", 5, "low", 2)

IsSuccessfulDispute(d) == d.result = "success"
IsFailedDispute(d) == d.result = "failed"

_analyze_dispute_risk(client_history) ==
    LET disputes == client_history.disputes
        successful == Len(SelectSeq(disputes, IsSuccessfulDispute))
        recent_disputes == SubSeq(disputes, 1, Min(5, Len(disputes)))
        recent_failures == SelectSeq(recent_disputes, IsFailedDispute)
    IN  IF disputes = <<>>
          THEN RiskFactor("dispute_success", 3, "low", 2)
        ELSE IF Len(recent_failures) >= 3
          THEN RiskFactor("dispute_success", 3, "high", 8)
        \* success_rate < 0.3
        ELSE IF 10 * successful < 3 * Len(disputes)
          THEN RiskFactor("dispute_success", 3, "high", 7)
        \* success_rate < 0.6
        ELSE IF 10 * successful < 6 * Len(disputes)
          THEN RiskFactor("dispute_success", 3, "medium", 5)
        ELSE RiskFactor("dispute_success", 3, "low", 2)

_analyze_utilization_risk(client_history) ==
    LET recent_activity ==
            Len(Recent(client_history.disputes, 30))
                + Len(Recent(client_history.documents, 30))
    IN  IF recent_activity = 0
          THEN RiskFactor("service_utilization", 2, "high", 8)
        ELSE IF recent_activity = 1
          THEN RiskFactor("service_utilization", 2, "medium", 6)
        ELSE IF recent_activity <= 3
          THEN RiskFactor("service_utilization", 2, "low", 3)
        ELSE RiskFactor("service_utilization", 2, "low", 1)

\* The exception _analyze_tenure_risk ends in, "" when it ends in none:
\* fromisoformat raises ValueError on a text that is no ISO date, and
\* utcnow() - client_start raises TypeError when created_at carries a time
\* zone (utcnow() carries none).
TenureRaises(client) ==
    IF "created_at" \notin DOMAIN client THEN ""
    ELSE IF client.created_at.kind = "malformed"
      THEN "Invalid isoformat string: 'n/a'"
    ELSE IF client.created_at.kind = "aware"
      THEN "can't subtract offset-naive and offset-aware datetimes"
    ELSE ""

\* _analyze_tenure_risk when it does not raise: None or a factor.
_analyze_tenure_risk(client) ==
    IF "created_at" \notin DOMAIN client THEN None
    ELSE LET days_since_start == client.created_at.days
         IN  IF days_since_start < 30
               THEN Some(RiskFactor("client_tenure", 2, "medium", 6))
             ELSE IF days_since_start < 90
               THEN Some(RiskFactor("client_tenure", 2, "medium", 4))
             ELSE IF days_since_start > 365
               THEN Some(RiskFactor("client_tenure", 2, "low", 2))
             ELSE Some(RiskFactor("client_tenure", 2, "low", 3))

support_indicators ==
    {"support", "help", "issue", "problem", "complaint", "frustrated"}

\* A subject and a body are sequences of lower-case words; an indicator is
\* found when it is one of the words.
IsSupportContact(comm) ==
    \E i \in DOMAIN comm.subject : comm.subject[i] \in support_indicators

_analyze_support_risk(client_history) ==
    LET support_contacts == SelectSeq(client_history.communications, IsSupportContact)
        recent_support == Len(Recent(support_contacts, 30))
    IN  IF recent_support >= 3
          THEN RiskFactor("support_interactions", 3, "high", 8)
        ELSE IF recent_support >= 1
          THEN RiskFactor("support_interactions", 3, "medium", 5)
        ELSE RiskFactor("support_interactions", 3, "low", 2)

\* _analyze_risk_factors when the tenure analysis does not raise.
_analyze_risk_factors(client, client_history) ==
    LET tenure_factor == _analyze_tenure_risk(client)
    IN  << _analyze_engagement_risk(client_history),
           _analyze_payment_risk(client_history),
           _analyze_dispute_risk(client_history),
           _analyze_utilization_risk(client_history) >>
        \o (IF tenure_factor = None THEN <<>> ELSE <<TheValue(tenure_factor)>>)
        \o << _analyze_support_risk(client_history) >>

\* SigmoidSteps[k] is the least normalized risk x, in millionths, at which
\* round(1 / (1 + math.exp(-6 * (x - 0.5))), 3) reaches 0.083 + k/1000; the
\* table spans the risks 0.1 .. 0.9 the impact scores of the analyzers
\* allow.
SigmoidSteps ==
    << 100715, 102881, 105024, 107144, 109242, 111319, 113375, 115410, 117425, 119420,
       121396, 123353, 125291, 127212, 129114, 131000, 132868, 134720, 136556, 138375,
       140179, 141968, 143742, 145500, 147245, 148975, 150691, 152393, 154082, 155758,
       157421, 159071, 160709, 162334, 163947, 165548, 167138, 168717, 170284, 171840,
       173385, 174919, 176443, 177956, 179459, 180953, 182436, 183910, 185374, 186828,
       188274, 189710, 191137, 192556, 193965, 195366, 196759, 198143, 199519, 200887,
       202247, 203599, 204944, 206280, 207610, 208931, 210246, 211553, 212853, 214146,
       215432, 216711, 217984, 219250, 220509, 221762, 223008, 224248, 225482, 226710,
       227932, 229147, 230357, 231561, 232759, 233951, 235138, 236319, 237495, 238665,
       239830, 240990, 242144, 243293, 244438, 245577, 246711, 247840, 248964, 250084,
       251198, 252309, 253414, 254515, 255611, 256703, 257790, 258873, 259952, 261026,
       262096, 263162, 264224, 265281, 266335, 267385, 268430, 269472, 270510, 271544,
       272574, 273600, 274623, 275642, 276657, 277669, 278677, 279681, 280683, 281680,
       282675, 283665, 284653, 285637, 286618, 287596, 288570, 289541, 290509, 291474,
       292436, 293395, 294351, 295304, 296254, 297200, 298144, 299085, 300024, 300959,
       301892, 302822, 303749, 304673, 305595, 306514, 307430, 308344, 309255, 310164,
       311070, 311973, 312874, 313773, 314669, 315562, 316454, 317343, 318229, 319113,
       319995, 320875, 321752, 322627, 323500, 324371, 325239, 326105, 326969, 327831,
       328691, 329549, 330405, 331258, 332110, 332959, 333807, 334653, 335496, 336338,
       337178, 338016, 338851, 339686, 340518, 341348, 342177, 343003, 343828, 344651,
       345473, 346292, 347110, 347927, 348741, 349554, 350365, 351174, 351982, 352788,
       353593, 354396, 355197, 355997, 356795, 357592, 358387, 359181, 359973, 360764,
       361553, 362341, 363127, 363912, 364695, 365477, 366258, 367037, 367815, 368591,
       369366, 370140, 370912, 371683, 372453, 373222, 373989, 374755, 375519, 376283,
       377045, 377806, 378566, 379324, 380081, 380838, 381593, 382346, 383099, 383851,
       384601, 385350, 386098, 386845, 387591, 388336, 389080, 389823, 390564, 391305,
       392045, 392783, 393521, 394257, 394993, 395727, 396461, 397193, 397925, 398656,
       399386, 400114, 400842, 401569, 402295, 403020, 403745, 404468, 405191, 405912,
       406633, 407353, 408072, 408790, 409508, 410224, 410940, 411655, 412369, 413083,
       413795, 414507, 415218, 415929, 416638, 417347, 418055, 418763, 419469, 420175,
       420881, 421585, 422289, 422992, 423695, 424397, 425098, 425799, 426499, 427198,
       427897, 428595, 429292, 429989, 430685, 431381, 432076, 432770, 433464, 434157,
       434850, 435542, 436234, 436925, 437616, 438306, 438995, 439684, 440373, 441060,
       441748, 442435, 443121, 443808, 444493, 445178, 445863, 446547, 447231, 447914,
       448597, 449279, 449961, 450643, 451324, 452005, 452685, 453365, 454045, 454724,
       455403, 456081, 456760, 457437, 458115, 458792, 459469, 460145, 460821, 461497,
       462172, 462847, 463522, 464197, 464871, 465545, 466219, 466892, 467565, 468238,
       468911, 469583, 470255, 470927, 471599, 472270, 472941, 473612, 474283, 474953,
       475624, 476294, 476964, 477634, 478303, 478973, 479642, 480311, 480980, 481649,
       482317, 482986, 483654, 484322, 484990, 485658, 486326, 486994, 487662, 488329,
       488997, 489664, 490331, 490998, 491665, 492332, 492999, 493666, 494333, 495000,
       495667, 496334, 497000, 497667, 498334, 499000, 499667, 500334, 501001, 501667,
       502334, 503001, 503667, 504334, 505001, 505668, 506335, 507002, 507669, 508336,
       509003, 509670, 510337, 511004, 511672, 512339, 513007, 513675, 514343, 515011,
       515679, 516347, 517015, 517684, 518352, 519021, 519690, 520359, 521028, 521698,
       522367, 523037, 523707, 524377, 525048, 525718, 526389, 527060, 527731, 528402,
       529074, 529746, 530418, 531090, 531763, 532436, 533109, 533782, 534456, 535130,
       535804, 536479, 537154, 537829, 538504, 539180, 539856, 540532, 541209, 541886,
       542564, 543241, 543920, 544598, 545277, 545956, 546636, 547316, 547996, 548677,
       549358, 550040, 550722, 551404, 552087, 552770, 553454, 554138, 554823, 555508,
       556193, 556880, 557566, 558253, 558941, 559628, 560317, 561006, 561695, 562385,
       563076, 563767, 564459, 565151, 565844, 566537, 567231, 567925, 568620, 569316,
       570012, 570709, 571406, 572104, 572803, 573502, 574202, 574903, 575604, 576306,
       577009, 577712, 578416, 579120, 579826, 580532, 581238, 581946, 582654, 583363,
       584072, 584783, 585494, 586206, 586918, 587632, 588346, 589061, 589777, 590493,
       591211, 591929, 592648, 593368, 594089, 594810, 595533, 596256, 596981, 597706,
       598432, 599159, 599887, 600615, 601345, 602076, 602808, 603540, 604274, 605008,
       605744, 606480, 607218, 607956, 608696, 609437, 610178, 610921, 611665, 612410,
       613156, 613903, 614651, 615400, 616150, 616902, 617655, 618408, 619163, 619920,
       620677, 621435, 622195, 622956, 623718, 624482, 625246, 626012, 626779, 627548,
       628318, 629089, 629861, 630635, 631410, 632186, 632964, 633743, 634524, 635306,
       636089, 636874, 637660, 638448, 639237, 640028, 640820, 641614, 642409, 643206,
       644004, 644804, 645605, 646408, 647213, 648019, 648827, 649636, 650447, 651260,
       652074, 652891, 653709, 654528, 655350, 656173, 656998, 657824, 658653, 659483,
       660315, 661150, 661985, 662823, 663663, 664505, 665348, 666194, 667042, 667891,
       668743, 669596, 670452, 671310, 672170, 673032, 673896, 674762, 675630, 676501,
       677374, 678249, 679126, 680006, 680888, 681772, 682658, 683547, 684439, 685332,
       686228, 687127, 688028, 688931, 689837, 690746, 691657, 692571, 693487, 694406,
       695328, 696252, 697179, 698109, 699042, 699977, 700916, 701857, 702801, 703747,
       704697, 705650, 706606, 707565, 708527, 709492, 710460, 711431, 712405, 713383,
       714364, 715348, 716336, 717326, 718321, 719318, 720320, 721324, 722332, 723344,
       724359, 725378, 726401, 727427, 728457, 729491, 730529, 731571, 732616, 733666,
       734720, 735777, 736839, 737905, 738975, 740049, 741128, 742211, 743298, 744390,
       745486, 746587, 747692, 748803, 749917, 751037, 752161, 753290, 754424, 755563,
       756708, 757857, 759011, 760171, 761336, 762506, 763682, 764863, 766050, 767242,
       768440, 769644, 770854, 772069, 773291, 774519, 775753, 776993, 778239, 779492,
       780751, 782017, 783290, 784569, 785855, 787148, 788448, 789755, 791070, 792391,
       793721, 795057, 796402, 797754, 799114, 800482, 801858, 803242, 804635, 806036,
       807445, 808864, 810291, 811727, 813173, 814627, 816091, 817565, 819048, 820542,
       822045, 823558, 825082, 826616, 828161, 829717, 831284, 832863, 834453, 836054,
       837667, 839292, 840930, 842580, 844243, 845919, 847608, 849310, 851026, 852756,
       854501, 856259, 858033, 859822, 861626, 863445, 865281, 867133, 869001, 870887,
       872789, 874710, 876648, 878605, 880581, 882576, 884591, 886626, 888682, 890759,
       892857, 894977, 897120, 899286 >>

\* The impact scores, in the order of the analyzers, whose float sum
\* total_weighted_risk falls one unit in the last place short of 4.75, so
\* that normalized_risk is 0.4999999999999999 where the exact quotient is
\* 0.5.
FloatSumShort ==
    { <<5, 9, 2, 6, 3, 2>>, <<5, 9, 2, 3, 6, 2>>, <<5, 8, 7, 1, 3, 2>>,
      <<5, 6, 7, 6, 3, 2>>, <<5, 6, 7, 3, 6, 2>>, <<9, 5, 2, 8, 3, 2>>,
      <<9, 6, 5, 1, 3, 2>>, <<9, 2, 7, 8, 3, 2>>, <<9, 2, 5, 8, 6, 2>> }

RECURSIVE WeightedRisk(_)
WeightedRisk(risk_factors) ==
    IF risk_factors = <<>> THEN 0
    ELSE Head(risk_factors).impact_score * Head(risk_factors).weight
             + WeightedRisk(Tail(risk_factors))
RECURSIVE TotalWeight(_)
TotalWeight(risk_factors) ==
    IF risk_factors = <<>> THEN 0
    ELSE Head(risk_factors).weight + TotalWeight(Tail(risk_factors))

\* A probability 1 / (1 + exp(-6 (x - 0.5))) is held as its normalized risk
\* x = num / den; short says the float x lies just under num / den.
DefaultProbability == [num |-> 1, den |-> 2, short |-> FALSE]

\* Faulty variant: the sign of the exponent is lost.
_calculate_churn_probability_Inverted(risk_factors) ==
    IF risk_factors = <<>> \/ TotalWeight(risk_factors) = 0
      THEN DefaultProbability
    ELSE [num |-> 10 * TotalWeight(risk_factors) - WeightedRisk(risk_factors),
          den |-> 10 * TotalWeight(risk_factors),
          short |-> FALSE]

_calculate_churn_probability(risk_factors) ==
    IF risk_factors = <<>> \/ TotalWeight(risk_factors) = 0
      THEN DefaultProbability
    ELSE [num |-> WeightedRisk(risk_factors),
          den |-> 10 * TotalWeight(risk_factors),
          short |-> [i \in DOMAIN risk_factors |-> risk_factors[i].impact_score]
                        \in FloatSumShort]

\* round(churn_probability, 3), in thousandths
Round3(probability) ==
    83 + Cardinality({ k \in DOMAIN SigmoidSteps :
                         probability.num * 1000000
                             >= SigmoidSteps[k] * probability.den })

\* probability >= 0.7: x >= 0.5 + ln(7/3)/6; probability >= 0.5: x >= 0.5;
\* probability >= 0.3: x >= 0.5 - ln(7/3)/6.
_determine_risk_level(probability) ==
    IF probability.num * 1000000 >= 641217 * probability.den THEN "critical"
    ELSE IF /\ 2 * probability.num >= probability.den
            /\ ~(probability.short /\ 2 * probability.num = probability.den)
      THEN "high"
    ELSE IF probability.num * 1000000 >= 358784 * probability.den THEN "medium"
    ELSE "low"

FactorRecommendations(factor) ==
    IF factor.risk_level \notin {"high", "critical"} THEN <<>>
    ELSE CASE factor.factor_name = "communication_engagement" ->
                << "Implement multi-channel communication strategy",
                   "Personalize email content based on client interests" >>
           [] factor.factor_name = "payment_behavior" ->
                << "Offer flexible payment options or payment plans",
                   "Provide financial education resources",
                   "Consider service tier adjustment" >>
           [] factor.factor_name = "dispute_success" ->
                << "Review dispute strategy and set realistic expectations",
                   "Provide regular progress updates and success stories",
                   "Consider additional services or consultations" >>
           [] factor.factor_name = "service_utilization" ->
                << "Engage client with usage tips and best practices",
                   "Highlight underutilized features that could add value",
                   "Schedule onboarding or refresher training" >>
           [] factor.factor_name = "support_interactions" ->
                << "Address all outstanding support issues immediately",
                   "Assign dedicated support representative",
                   "Implement proactive support check-ins" >>
           [] OTHER -> <<>>

RECURSIVE AllFactorRecommendations(_)
AllFactorRecommendations(risk_factors) ==
    IF risk_factors = <<>> THEN <<>>
    ELSE FactorRecommendations(Head(risk_factors))
             \o AllFactorRecommendations(Tail(risk_factors))

\* The loop over the factors rebinds risk_level, so the closing test reads
\* the last factor's level.
_generate_recommendations(risk_level, risk_factors) ==
    LET by_level ==
            IF risk_level \in {"critical", "high"}
              THEN << "Immediate outreach required - schedule personal call within 24 hours",
                      "Offer special retention incentives or service upgrades",
                      "Escalate to account management team" >>
            ELSE IF risk_level = "medium"
              THEN << "Proactive check-in within 1 week",
                      "Send targeted value-add content or resources",
                      "Review service satisfaction and address concerns" >>
            ELSE <<>>
        recommendations == by_level \o AllFactorRecommendations(risk_factors)
        last_level == IF risk_factors = <<>> THEN risk_level
                      ELSE risk_factors[Len(risk_factors)].risk_level
    IN  IF recommendations # <<>> THEN recommendations
        ELSE IF last_level = "low"
          THEN << "Continue current engagement strategy",
                  "Consider upselling or cross-selling opportunities" >>
        ELSE << "Monitor closely and gather feedback",
                "Review service delivery and client satisfaction" >>

churn_calculate_confidence(client_history, risk_factors) ==
    LET data_points ==
            Cardinality({ k \in {"disputes", "payments", "communications", "documents"} :
                            client_history[k] # <<>> })
        factor_count == Len(risk_factors)
        factor_confidence == IF factor_count = 0 THEN 100
                             ELSE IF factor_count <= 2 THEN 400
                             ELSE IF factor_count <= 4 THEN 700
                             ELSE 900
    IN  Max(100, Min(1000, (250 * data_points + factor_confidence) \div 2))

\* The except branch of _predict_client_churn.
FallbackPrediction(client, message) ==
    [client_id |-> client.id,
     churn_probability |-> 500,
     risk_level |-> "medium",
     horizon_days |-> 30,
     factors |-> <<>>,
     recommended_actions |-> << "Manual review required due to prediction error" >>,
     confidence_score |-> 100,
     error |-> message]

\* Faulty variant: the exception of one client is not caught.
_predict_client_churn_Uncaught(client, client_history, request) ==
    IF request.include_factors /\ TenureRaises(client) # ""
      THEN [raised |-> TenureRaises(client)]
    ELSE LET risk_factors == IF request.include_factors
                               THEN _analyze_risk_factors(client, client_history)
                               ELSE <<>>
             churn_probability == _calculate_churn_probability(risk_factors)
             risk_level == _determine_risk_level(churn_probability)
         IN  [client_id |-> client.id,
              churn_probability |-> Round3(churn_probability),
              risk_level |-> risk_level,
              horizon_days |-> 30,
              factors |-> risk_factors,
              recommended_actions |->
                  IF request.include_recommendations
                    THEN _generate_recommendations(risk_level, risk_factors)
                    ELSE <<>>,
              confidence_score |-> churn_calculate_confidence(client_history, risk_factors)]

_predict_client_churn(client, client_history, request) ==
    IF request.include_factors /\ TenureRaises(client) # ""
      THEN FallbackPrediction(client, TenureRaises(client))
    ELSE LET risk_factors == IF request.include_factors
                               THEN _analyze_risk_factors(client, client_history)
                               ELSE <<>>
             churn_probability == _calculate_churn_probability(risk_factors)
             risk_level == _determine_risk_level(churn_probability)
         IN  [client_id |-> client.id,
              churn_probability |-> Round3(churn_probability),
              risk_level |-> risk_level,
              horizon_days |-> 30,
              factors |-> risk_factors,
              recommended_actions |->
                  IF request.include_recommendations
                    THEN _generate_recommendations(risk_level, risk_factors)
                    ELSE <<>>,
              confidence_score |-> churn_calculate_confidence(client_history, risk_factors)]

CountLevel(predictions, level) ==
    Cardinality({ i \in DOMAIN predictions : predictions[i].risk_level = level })

_calculate_summary_statistics(predictions) ==
    LET risk_counts == [level \in {"critical", "high", "medium", "low"} |->
                            CountLevel(predictions, level)]
    IN  [high_risk_count |-> risk_counts["high"],
         medium_risk_count |-> risk_counts["medium"],
         low_risk_count |-> risk_counts["low"],
         critical_risk_count |-> risk_counts["critical"],
         total_potential_revenue_at_risk |->
             (risk_counts["critical"] + risk_counts["high"]) * 200,
         risk_distribution |-> risk_counts]

\* The except branch of predict_churn.
ChurnErrorResponse(message) ==
    [organization_id |-> "org-1", horizon_days |-> 30, total_clients |-> 0,
     high_risk_clients |-> 0, medium_risk_clients |-> 0, low_risk_clients |-> 0,
     predictions |-> <<>>, summary_statistics |-> NoKeys, error |-> message]

ChurnResponse(clients, predictions) ==
    LET summary_stats == _calculate_summary_statistics(predictions)
    IN  [organization_id |-> "org-1", horizon_days |-> 30,
         total_clients |-> Len(clients),
         high_risk_clients |-> summary_stats.high_risk_count,
         medium_risk_clients |-> summary_stats.medium_risk_count,
         low_risk_clients |-> summary_stats.low_risk_count,
         predictions |-> predictions,
         summary_statistics |-> summary_stats]

\* predict_churn(request_data) over all active clients, one whole call.  An
\* exception that leaves _predict_client_churn ends the loop and is
\* answered by the except branch of predict_churn.
predict_churn(clients, activity, request) ==
    IF clients = <<>> THEN ChurnErrorResponse("No clients found for analysis")
    ELSE LET predictions == [i \in DOMAIN clients |->
                                _predict_client_churn(clients[i], activity[i], request)]
             raising == { i \in DOMAIN predictions : "raised" \in DOMAIN predictions[i] }
         IN  IF raising # {}
               THEN ChurnErrorResponse(
                        predictions[CHOOSE i \in raising :
                                        \A j \in raising : i <= j].raised)
             ELSE ChurnResponse(clients, predictions)

PredictChurn ==
    /\ churnResult.organization_id = "none"
    /\ churnResult' = predict_churn(churnClients, churnActivity, churnRequest)
    /\ UNCHANGED <<churnClients, churnActivity, churnRequest>>
    /\ UNCHANGED otherThanChurn

Email(status, opened, click_count, created_days_ago, subject) ==
    [status |-> status, opened |-> opened, click_count |-> click_count,
     created_days_ago |-> created_days_ago, subject |-> subject]
Payment(status, created_days_ago) ==
    [status |-> status, created_days_ago |-> created_days_ago]
Dispute(result, created_days_ago) ==
    [result |-> result, created_days_ago |-> created_days_ago]
Document(created_days_ago) == [created_days_ago |-> created_days_ago]

ClientHistory(disputes, payments, communications, documents) ==
    [disputes |-> disputes, payments |-> payments,
     communications |-> communications, documents |-> documents]

\* Each list newest first, as the queries order them.
HistoryChoices ==
    { ClientHistory(<<>>, <<>>, <<>>, <<>>),
      ClientHistory(<<>>, << Payment("failed", 5), Payment("paid", 40) >>,
                    <<>>, << Document(10) >>),
      ClientHistory(<< Dispute("success", 3), Dispute("success", 20) >>,
                    << Payment("paid", 2), Payment("paid", 32) >>,
                    << Email("delivered", TRUE, 1, 1, <<"your", "dispute", "update">>),
                       Email("sent", TRUE, 0, 15, <<"welcome">>) >>,
                    << Document(4), Document(18) >>),
      ClientHistory(<< Dispute("failed", 100), Dispute("failed", 130),
                       Dispute("failed", 160) >>,
                    << Payment("paid", 70), Payment("failed", 100) >>,
                    << Email("sent", FALSE, 0, 2, <<"billing", "complaint">>),
                       Email("sent", FALSE, 0, 9, <<"still", "frustrated">>),
                       Email("sent", FALSE, 0, 21, <<"problem", "with", "letter">>) >>,
                    <<>>) }

CreatedAtChoices ==
    { NoKeys,
      [created_at |-> [kind |-> "naive", days |-> 10]],
      [created_at |-> [kind |-> "naive", days |-> 200]],
      [created_at |-> [kind |-> "aware", days |-> 200]],
      [created_at |-> [kind |-> "malformed", days |-> 0]] }

ClientBatches ==
    UNION { { [i \in 1..n |-> [id |-> i] @@ created[i]] :
                created \in [1..n -> CreatedAtChoices] } : n \in 0..MaxClients }

InitChurn ==
    /\ churnClients \in ClientBatches
    /\ churnActivity \in [DOMAIN churnClients -> HistoryChoices]
    /\ churnRequest \in [include_factors : BOOLEAN, include_recommendations : BOOLEAN]
    /\ churnResult = [organization_id |-> "none"]
    /\ OthersIdle("churn")

NextChurn == PredictChurn

SpecChurn == InitChurn /\ [][NextChurn]_vars

ChurnAnswered == churnResult.organization_id # "none"
\* The predictions whose risk factors were analysed.
WithFactors == { i \in DOMAIN churnResult.predictions :
                   churnResult.predictions[i].factors # <<>> }
\* Compared by cross-multiplication: the aggregate weighted risk
\* sum(impact_score x weight) / sum(weight) of prediction i is at most
\* (less than) that of prediction j.
RiskAtMost(i, j) ==
    LET p == churnResult.predictions[i].factors
        q == churnResult.predictions[j].factors
    IN  WeightedRisk(p) * TotalWeight(q) <= WeightedRisk(q) * TotalWeight(p)
RiskBelow(i, j) == ~RiskAtMost(j, i)

\* C19: the churn probability of every prediction lies in [0, 1], and of
\* two predictions the one with the lower aggregate weighted risk never
\* has the higher churn probability.
C19_ProbabilityMonotone ==
    ChurnAnswered =>
        /\ \A i \in DOMAIN churnResult.predictions :
               /\ churnResult.predictions[i].churn_probability >= 0
               /\ churnResult.predictions[i].churn_probability <= 1000
        /\ \A i, j \in WithFactors :
               RiskAtMost(i, j) =>
                   churnResult.predictions[i].churn_probability
                       <= churnResult.predictions[j].churn_probability

\* Two clients of one batch with different aggregate risks, the riskier one
\* with the higher probability.
C19_Witness ==
    /\ ChurnAnswered
    /\ \E i, j \in WithFactors :
           /\ RiskBelow(i, j)
           /\ churnResult.predictions[i].churn_probability
                  < churnResult.predictions[j].churn_probability

\* The evaluation of client i fails: its created_at is no ISO date or
\* carries a time zone, and the tenure analysis reads it.
EvaluationFails(i) ==
    /\ churnRequest.include_factors
    /\ "created_at" \in DOMAIN churnClients[i]
    /\ churnClients[i].created_at.kind \in {"malformed", "aware"}

\* C20: in a batch, the response holds one prediction per client, in the
\* order of the clients; the entry of a client whose evaluation failed is
\* the fallback flagged with the error message, and no other entry is.
C20_FailureKeptToOneClient ==
    (ChurnAnswered /\ churnClients # <<>>) =>
        /\ "error" \notin DOMAIN churnResult
        /\ Len(churnResult.predictions) = Len(churnClients)
        /\ churnResult.total_clients = Len(churnClients)
        /\ \A i \in DOMAIN churnClients :
             LET prediction == churnResult.predictions[i]
             IN  /\ prediction.client_id = churnClients[i].id
                 /\ EvaluationFails(i) =>
                        /\ "error" \in DOMAIN prediction
                        /\ prediction.error # ""
                        /\ prediction.churn_probability = 500
                        /\ prediction.risk_level = "medium"
                        /\ prediction.confidence_score = 100
                        /\ prediction.factors = <<>>
                 /\ ~EvaluationFails(i) =>
                        /\ "error" \notin DOMAIN prediction
                        /\ churnRequest.include_factors => prediction.factors # <<>>

\* A batch of two in which one evaluation failed and the other did not.
C20_Witness ==
    /\ ChurnAnswered
    /\ Len(churnClients) = 2
    /\ \E i, j \in DOMAIN churnClients :
           /\ EvaluationFails(i) /\ ~EvaluationFails(j)
           /\ "error" \in DOMAIN churnResult.predictions[i]
           /\ "error" \notin DOMAIN churnResult.predictions[j]

\* C26: schedule_next_round never ends in an exception, and with no dispute
\* row it returns the emergency default schedule: rule_applied
\* emergency_default, 30 days out, strategy standard, no task, estimated
\* success probability 0.5.
C26_NeverRaises ==
    /\ schedResult.rule_applied # "raised"
    /\ (schedDispute = None /\ schedResult.rule_applied # "none") =>
           /\ schedResult.rule_applied = "emergency_default"
           /\ schedResult.scheduled_date = 30
           /\ schedResult.follow_up_strategy = "standard"
           /\ schedResult.task_id = None
           /\ schedResult.estimated_success_probability = 5000

\* C27: however often schedule_next_round is repeated for a dispute whose
\* round_number does not change, scheduled_tasks holds at most one task of
\* type dispute_round and status scheduled for that dispute and round.
C27_NoDuplicateTask ==
    \A i, j \in DOMAIN schedTasks :
        ( /\ schedTasks[i].dispute_id = schedTasks[j].dispute_id
          /\ schedTasks[i].task_data.round_number = schedTasks[j].task_data.round_number
          /\ schedTasks[i].task_type = "dispute_round"
          /\ schedTasks[j].task_type = "dispute_round"
          /\ schedTasks[i].status = "scheduled"
          /\ schedTasks[j].status = "scheduled" ) => i = j

\* The tier the thresholds give a returned churn probability (thousandths).
ReturnedTier(churn_probability) ==
    IF churn_probability >= 700 THEN "critical"
    ELSE IF churn_probability >= 500 THEN "high"
    ELSE IF churn_probability >= 300 THEN "medium"
    ELSE "low"

\* C30: in every prediction returned, the fallback and the no-factor
\* default included, risk_level is the tier of the returned
\* churn_probability: critical from 0.7, high from 0.5, medium from 0.3,
\* otherwise low.
C30_RiskLevelOfReturnedProbability ==
    ChurnAnswered =>
        \A i \in DOMAIN churnResult.predictions :
            churnResult.predictions[i].risk_level
                = ReturnedTier(churnResult.predictions[i].churn_probability)

\* The last recommendation applied a rule of the table.
RuleWasApplied ==
    bureauResult.rule_applied
        \notin {"none", "default", "default_all_bureaus", "fallback_default"}
\* The dispute matches rule i's own criterion: its dispute type, one of its
\* account keywords, or its client-history condition.
MatchesOwnCriterion(i) ==
    /\ ~ RelevanceRaises(ActiveRules[i], bureauDispute)
    /\ TypeRelevanceTenths(ActiveRules[i], bureauDispute, bureauHistory) > 0

\* C29: a targeting rule is applied only to a dispute that matches the
\* rule's own criterion; the success-history bonus alone never has a rule
\* applied that the dispute does not match.
C29_AppliedRuleMatchesDispute ==
    RuleWasApplied =>
        \E i \in 1..Len(ActiveRules) :
            /\ ActiveRules[i].name = bureauResult.rule_applied
            /\ MatchesOwnCriterion(i)

\* C22: whenever a step numbered current_step + 1 is configured for the
\* sequence, the result of process_dunning_sequence carries that step's
\* number and its email template, when the action is email_sent and when it
\* is wait.
C22_ResultNamesNextStep ==
    [][ ProcessDunning =>
          \A step \in ConfiguredStep(CurrentStep(seqStates) + 1) :
             /\ dunResult'.action \in {"email_sent", "wait"}
             /\ "step_number" \in DOMAIN dunResult'
             /\ "email_template" \in DOMAIN dunResult'
             /\ dunResult'.step_number = CurrentStep(seqStates) + 1
             /\ dunResult'.email_template = step.email_template_key ]_vars

(***************************************************************************)
(* SpecDunningCalls: concurrent process_dunning_sequence calls for one     *)
(* failed payment.  Each await on the database is one step of a call;      *)
(* between two steps of one call the steps of the others may run.  A call  *)
(* keeps what it has read (sequence_state, next_step) in its own locals.   *)
(***************************************************************************)
MaxDunningCalls == 2

DunningCallStart ==
    [pc |-> "get_state", sequence_state |-> None, next_step |-> None,
     result |-> [action |-> "none"]]

\* sequence_state = await self._get_sequence_state(...)
CallGetSequenceState(c) ==
    /\ dunCalls[c].pc = "get_state"
    /\ LET found == _get_sequence_state(seqStates) IN
         dunCalls' = [dunCalls EXCEPT
                        ![c].sequence_state = found,
                        ![c].pc = IF found = None THEN "start_new" ELSE "get_step"]
    /\ UNCHANGED dunVars
    /\ UNCHANGED otherThanDunningCalls

\* sequence_state = await self._start_new_sequence(...)
CallStartNewSequence(c) ==
    /\ dunCalls[c].pc = "start_new"
    /\ seqStates' = Append(seqStates, NewSequenceRow(now))
    /\ dunCalls' = [dunCalls EXCEPT ![c].sequence_state = Some(NewSequenceRow(now)),
                                    ![c].pc = "get_step"]
    /\ UNCHANGED <<now, dunSteps, payment, sent, dunResult>>
    /\ UNCHANGED otherThanDunningCalls

\* next_step = await self._get_next_sequence_step(current_step + 1, ...);
\* without a step the call returns sequence_complete.
CallGetNextStep(c) ==
    /\ dunCalls[c].pc = "get_step"
    /\ LET state == TheValue(dunCalls[c].sequence_state)
           found == _get_next_sequence_step(dunSteps, state.current_step + 1)
       IN  IF found = None
             THEN LET result == [action |-> "sequence_complete",
                                 message |-> "Dunning email sequence completed",
                                 escalation_required |-> TRUE]
                  IN  /\ dunCalls' = [dunCalls EXCEPT ![c].pc = "returned",
                                                      ![c].result = result]
                      /\ dunResult' = result
             ELSE /\ dunCalls' = [dunCalls EXCEPT ![c].next_step = found,
                                                  ![c].pc = "should_trigger"]
                  /\ UNCHANGED dunResult
    /\ UNCHANGED <<now, seqStates, dunSteps, payment, sent>>
    /\ UNCHANGED otherThanDunningCalls

\* should_trigger = await self._should_trigger_step(...); when it is false
\* the call returns wait.
CallShouldTrigger(c) ==
    /\ dunCalls[c].pc = "should_trigger"
    /\ LET state == TheValue(dunCalls[c].sequence_state)
           step == TheValue(dunCalls[c].next_step)
       IN  IF _should_trigger_step(step, state, payment, now)
             THEN /\ dunCalls' = [dunCalls EXCEPT ![c].pc = "send"]
                  /\ UNCHANGED dunResult
             ELSE LET result == [action |-> "wait",
                                 message |-> "Conditions not met for next step",
                                 next_check_date |-> _get_next_check_date(step, now)]
                  IN  /\ dunCalls' = [dunCalls EXCEPT ![c].pc = "returned",
                                                      ![c].result = result]
                      /\ dunResult' = result
    /\ UNCHANGED <<now, seqStates, dunSteps, payment, sent>>
    /\ UNCHANGED otherThanDunningCalls

\* email_result = await self._send_dunning_email(...)
CallSendDunningEmail(c) ==
    /\ dunCalls[c].pc = "send"
    /\ LET step == TheValue(dunCalls[c].next_step) IN
         sent' = [sent EXCEPT ![step.step_number] = @ + 1]
    /\ dunCalls' = [dunCalls EXCEPT ![c].pc = "update"]
    /\ UNCHANGED <<now, seqStates, dunSteps, payment, dunResult>>
    /\ UNCHANGED otherThanDunningCalls

\* await self._update_sequence_state(...), and the email_sent result.
CallUpdateSequenceState(c) ==
    /\ dunCalls[c].pc = "update"
    /\ LET step == TheValue(dunCalls[c].next_step)
           result == [action |-> "email_sent",
                      step_number |-> step.step_number,
                      email_template |-> step.email_template_key,
                      email_result |-> SendResult(step, now),
                      is_final_step |-> step.is_final]
       IN  /\ seqStates' = _update_sequence_state(seqStates, step.step_number, now)
           /\ dunCalls' = [dunCalls EXCEPT ![c].pc = "returned",
                                           ![c].result = result]
           /\ dunResult' = result
    /\ UNCHANGED <<now, dunSteps, payment, sent>>
    /\ UNCHANGED otherThanDunningCalls

InitDunningCalls ==
    /\ now = 0
    /\ seqStates = <<>>
    /\ dunSteps \in StepTables
    /\ payment \in { {} } \cup { {[amount_cents |-> a]} : a \in AmountCentsChoices }
    /\ sent = [n \in 1..MaxSteps |-> 0]
    /\ dunResult = [action |-> "none"]
    /\ dunCalls = [c \in 1..MaxDunningCalls |-> DunningCallStart]
    /\ OthersIdle("dunning_calls")

NextDunningCalls ==
    \E c \in 1..MaxDunningCalls :
        \/ CallGetSequenceState(c)
        \/ CallStartNewSequence(c)
        \/ CallGetNextStep(c)
        \/ CallShouldTrigger(c)
        \/ CallSendDunningEmail(c)
        \/ CallUpdateSequenceState(c)

SpecDunningCalls == InitDunningCalls /\ [][NextDunningCalls]_vars

\* C24: under any interleaving of concurrent process_dunning_sequence calls
\* for one failed payment, the email of every configured step is sent at
\* most once.
C24_StepSentAtMostOnce == \A n \in 1..MaxSteps : sent[n] <= 1

(***************************************************************************)
(* The dunning sequence when process_dunning_sequence keeps being called   *)
(* as time advances.  The service reads the clock only to compare the time *)
(* elapsed since the sequence started, or since its last step, with a      *)
(* step's delay_hours: once that time has reached the largest delay a step *)
(* can ask for, more waiting changes no decision, so the clock is advanced *)
(* only up to there before the next call.  Both the calls and the passing  *)
(* of time are weakly fair.                                                *)
(***************************************************************************)
LargestDelay == CHOOSE d \in DelayChoices : \A e \in DelayChoices : e <= d

\* _check_time_condition's start_time: last_step_at, or started_at before
\* the first step.
ElapsedSinceLastStep(state, t) ==
    t - (IF state.last_step_at = None
           THEN FromIsoFormat(state.started_at)
           ELSE FromIsoFormat(TheValue(state.last_step_at)))

\* The calls come at the shortest interval of TickChoices.
CallInterval == CHOOSE d \in TickChoices : \A e \in TickChoices : d <= e

TimeAdvances ==
    /\ HasState(seqStates)
    /\ ElapsedSinceLastStep(StateAt(seqStates, now), now) < LargestDelay
    /\ now' = now + CallInterval
    /\ UNCHANGED <<seqStates, dunSteps, payment, sent, dunResult>>
    /\ UNCHANGED otherThanDunning

NextDunningLive == ProcessDunning \/ TimeAdvances

SpecDunningLive ==
    /\ InitDunning
    /\ [][NextDunningLive]_vars
    /\ WF_vars(ProcessDunning)
    /\ WF_vars(TimeAdvances)

ActiveStepNumbers == { r.step_number : r \in { q \in dunSteps : q.is_active } }

\* The active steps are numbered 1..N for some N >= 1.
StepsConsecutive == \E N \in 1..MaxSteps : ActiveStepNumbers = 1..N

\* The payment is large enough for every step that asks for a minimum amount.
AmountConditionsSatisfied ==
    \A r \in dunSteps :
        (r.is_active /\ "min_amount" \in DOMAIN r.conditions)
            => AmountCentsOf(_get_payment_data(payment)) >= r.conditions["min_amount"] * 100

SequenceDone ==
    /\ \A n \in ActiveStepNumbers : sent[n] >= 1
    /\ dunResult.action = "sequence_complete"

\* C25: for a failed payment whose active steps are numbered 1..N and whose
\* amount conditions are satisfied, if process_dunning_sequence keeps being
\* called as time advances, then no step is sent before the step below it,
\* every step 1..N is eventually sent, and from some call on the calls
\* return sequence_complete.
C25_SequenceCompletes ==
    (StepsConsecutive /\ AmountConditionsSatisfied)
        => /\ [](\A n \in 2..MaxSteps : sent[n] >= 1 => sent[n - 1] >= 1)
           /\ <>[]SequenceDone

C25_Witness ==
    /\ StepsConsecutive
    /\ AmountConditionsSatisfied
    /\ ActiveStepNumbers = 1..MaxSteps
    /\ \A r \in dunSteps : DOMAIN r.conditions = {"delay_hours", "min_amount"}
    /\ \A r \in dunSteps : r.delay_hours = LargestDelay
    /\ SequenceDone

(***************************************************************************)
(* Billing dunning: DunningService (services/dunning_service.py), the      *)
(* Stripe webhooks that call it (routers/webhooks.py) and the background   *)
(* retry job, for the invoice of one payment intent.  The clock is in days.*)
(***************************************************************************)
RETRY_SCHEDULE == <<3, 7, 14, 30>>
MAX_RETRY_ATTEMPTS == 4

MaxBillDays == 25
MaxFailures == 5

\* The days that pass between two events.
DayChoices == {1, 2}

\* The last_payment_error message of the failed intent, if Stripe gave one.
FailureReasonChoices == {None, Some("card_declined")}

OpenInvoice ==
    [status |-> "open", attempt_count |-> 0, next_retry_at |-> None,
     last_failure_reason |-> None]

_suspend_account(org, t) ==
    [org EXCEPT !.subscription_status = "suspended",
                !.subscription = "suspended",
                !.suspended_at = Some(IsoFormat(t))]

\* Faulty variant: the account is suspended only after more than
\* MAX_RETRY_ATTEMPTS failures.
handle_payment_failure_SuspendsLate(invoices, org, t, failure_reason) ==
    IF invoices = None
      THEN [invoices |-> invoices, org |-> org, suspended |-> 0,
            result |-> [success |-> FALSE, error |-> "Invoice not found"]]
    ELSE
      LET invoice == TheValue(invoices)
          attempt_count == invoice.attempt_count + 1
      IN
      IF attempt_count > MAX_RETRY_ATTEMPTS
        THEN [invoices |-> invoices, org |-> _suspend_account(org, t),
              suspended |-> 1,
              result |-> [success |-> TRUE, action |-> "account_suspended",
                          attempt_count |-> attempt_count]]
      ELSE
        LET next_retry_days ==
                RETRY_SCHEDULE[Min(attempt_count - 1, Len(RETRY_SCHEDULE) - 1) + 1]
            next_retry_date == t + next_retry_days
        IN
        [invoices |-> Some([invoice EXCEPT
                              !.status = "payment_failed",
                              !.attempt_count = attempt_count,
                              !.next_retry_at = Some(IsoFormat(next_retry_date)),
                              !.last_failure_reason =
                                  IF failure_reason = None THEN Some("Unknown")
                                  ELSE failure_reason]),
         org |-> org, suspended |-> 0,
         result |-> [success |-> TRUE, action |-> "retry_scheduled",
                     attempt_count |-> attempt_count,
                     next_retry_date |-> IsoFormat(next_retry_date),
                     retry_days |-> next_retry_days]]

\* handle_payment_failure: the invoices table and the organization after the
\* call, whether _suspend_account ran, and the result returned.
handle_payment_failure(invoices, org, t, failure_reason) ==
    IF invoices = None
      THEN [invoices |-> invoices, org |-> org, suspended |-> 0,
            result |-> [success |-> FALSE, error |-> "Invoice not found"]]
    ELSE
      LET invoice == TheValue(invoices)
          attempt_count == invoice.attempt_count + 1
      IN
      IF attempt_count >= MAX_RETRY_ATTEMPTS
        THEN [invoices |-> invoices, org |-> _suspend_account(org, t),
              suspended |-> 1,
              result |-> [success |-> TRUE, action |-> "account_suspended",
                          attempt_count |-> attempt_count]]
      ELSE
        LET next_retry_days ==
                RETRY_SCHEDULE[Min(attempt_count - 1, Len(RETRY_SCHEDULE) - 1) + 1]
            next_retry_date == t + next_retry_days
        IN
        [invoices |-> Some([invoice EXCEPT
                              !.status = "payment_failed",
                              !.attempt_count = attempt_count,
                              !.next_retry_at = Some(IsoFormat(next_retry_date)),
                              !.last_failure_reason =
                                  IF failure_reason = None THEN Some("Unknown")
                                  ELSE failure_reason]),
         org |-> org, suspended |-> 0,
         result |-> [success |-> TRUE, action |-> "retry_scheduled",
                     attempt_count |-> attempt_count,
                     next_retry_date |-> IsoFormat(next_retry_date),
                     retry_days |-> next_retry_days]]

\* Webhook payment_intent.payment_failed: the outstanding charge failed.
HandlePaymentFailure ==
    /\ billCharge = "attempted"
    /\ billFailures < MaxFailures
    /\ \E failure_reason \in FailureReasonChoices :
         \E out \in { handle_payment_failure(billInvoices, billOrg, billNow,
                                             failure_reason) } :
           /\ billInvoices' = out.invoices
           /\ billOrg' = out.org
           /\ billSuspensions' = billSuspensions + out.suspended
           /\ billResult' = out.result
    /\ billFailures' = billFailures + (IF billInvoices = None THEN 0 ELSE 1)
    /\ billCharge' = "none"
    /\ UNCHANGED billNow
    /\ UNCHANGED otherThanBilling

\* Webhook payment_intent.succeeded: the outstanding charge went through.
HandlePaymentSuccess ==
    /\ billCharge = "attempted"
    /\ billInvoices' = { [r EXCEPT !.status = "paid"] : r \in billInvoices }
    /\ billCharge' = "none"
    /\ UNCHANGED <<billNow, billOrg, billFailures, billSuspensions, billResult>>
    /\ UNCHANGED otherThanBilling

\* The invoices check_and_process_retries finds due for retry.
InvoicesDueForRetry(invoices, t) ==
    { r \in invoices : /\ r.status = "payment_failed"
                       /\ r.next_retry_at # None
                       /\ FromIsoFormat(TheValue(r.next_retry_at)) <= t }

\* stripe.PaymentIntent.retrieve(...).status
PaymentIntentStatus(invoices, charge) ==
    IF charge = "attempted" THEN "processing"
    ELSE IF \E r \in invoices : r.status = "paid" THEN "succeeded"
    ELSE "requires_payment_method"

\* The background job: every invoice due for retry whose payment intent
\* requires a payment method is confirmed again.
CheckAndProcessRetries ==
    /\ billCharge' =
          IF /\ InvoicesDueForRetry(billInvoices, billNow) # {}
             /\ PaymentIntentStatus(billInvoices, billCharge) = "requires_payment_method"
            THEN "attempted"
            ELSE billCharge
    /\ UNCHANGED <<billNow, billInvoices, billOrg, billFailures, billSuspensions,
                   billResult>>
    /\ UNCHANGED otherThanBilling

BillingTick ==
    /\ \E d \in DayChoices :
         /\ billNow + d <= MaxBillDays
         /\ billNow' = billNow + d
    /\ UNCHANGED <<billInvoices, billOrg, billCharge, billFailures,
                   billSuspensions, billResult>>
    /\ UNCHANGED otherThanBilling

InitBilling ==
    /\ billNow = 0
    /\ billInvoices \in {None, Some(OpenInvoice)}
    /\ billOrg = [subscription_status |-> "active", subscription |-> "active",
                  suspended_at |-> None]
    /\ billCharge = "attempted"
    /\ billFailures = 0
    /\ billSuspensions = 0
    /\ billResult = [success |-> FALSE, error |-> "none"]
    /\ OthersIdle("billing")

NextBilling ==
    \/ HandlePaymentFailure
    \/ HandlePaymentSuccess
    \/ CheckAndProcessRetries
    \/ BillingTick

SpecBilling == InitBilling /\ [][NextBilling]_vars

AccountSuspended == billOrg.subscription_status = "suspended"

\* C23: the n-th failure of an invoice, n in 1..3, records attempt_count = n,
\* schedules the retry 3, 7 or 14 days out and does not suspend; the 4th
\* failure suspends the account and schedules no retry; the account is
\* suspended exactly when the failure count has reached 4.
C23_SuspendedAtFourthFailure ==
    /\ [][ billFailures' = billFailures + 1 =>
             /\ billFailures' \in 1..3 =>
                  /\ \A r \in billInvoices' :
                       /\ r.attempt_count = billFailures'
                       /\ r.next_retry_at =
                            Some(IsoFormat(billNow + <<3, 7, 14>>[billFailures']))
                  /\ billResult'.action = "retry_scheduled"
                  /\ billResult'.retry_days = <<3, 7, 14>>[billFailures']
                  /\ ~ AccountSuspended'
                  /\ billSuspensions' = billSuspensions
             /\ billFailures' = 4 =>
                  /\ AccountSuspended'
                  /\ billResult'.action = "account_suspended"
                  /\ billInvoices' = billInvoices ]_vars
    /\ [](AccountSuspended <=> billFailures >= 4)

C23_Witness ==
    /\ billFailures = 4
    /\ AccountSuspended
    /\ billResult.action = "account_suspended"
    /\ \A r \in billInvoices : r.attempt_count = 3

\* C28: once the account is suspended the retry job no longer starts a retry
\* of the invoice, and the suspension is executed at most once per invoice.
C28_SuspendedOnce ==
    /\ [][ (AccountSuspended /\ CheckAndProcessRetries) => billCharge' = billCharge ]_vars
    /\ [](billSuspensions <= 1)

(***************************************************************************)
(* LetterGenerationService.generate_letter over the letter_templates rows  *)
(* of one organization.  Template scores are in hundredths (2.0 is 200).   *)
(* A template's content is a sequence of words and {{variable}} marks.     *)
(***************************************************************************)
MaxLetters == 2

TemplateIds == {"t1", "t2"}

\* A word of a template's content, and a {{name}} mark in it.
Word(text) == [kind |-> "word", text |-> text]
Var(name) == [kind |-> "{{}}", text |-> name]

TemplateRow(id, active, priority, types) ==
    [id |-> id, name |-> <<"name of", id>>, is_active |-> active,
     priority |-> priority, dispute_types |-> types,
     content |-> <<Word("Dear"), Var("client_first_name"), Word("about"),
                   Var("account_name")>>,
     variables |-> <<"client_first_name", "account_number">>]

TemplateRowsOf(id) ==
    { TemplateRow(id, a, p, ty) :
        a \in BOOLEAN, p \in {0, 1}, ty \in { {}, {"late_payment"} } }

\* letter_templates holds at most one row per id.
TemplateTables ==
    { T \in SUBSET (UNION { TemplateRowsOf(id) : id \in TemplateIds }) :
        \A r, q \in T : r.id = q.id => r = q }

_get_active_templates(T) == { r \in T : r.is_active }

\* template.get(...) * 0.3, + 2.0, + 1.5, + 1.0, success_rate * 2.0 and the
\* usage bonus; rows carry no bureau_targets, round_optimized, success_rate
\* or usage_count, so those terms take their defaults.
_calculate_template_score(template, dispute_data) ==
    template.priority * 30
    + (IF dispute_data.dispute_type \in template.dispute_types THEN 200 ELSE 0)
    + 100

\* scored_templates.sort(reverse=True) is stable and the query orders by
\* priority only: among the templates of the highest score any one can come
\* first.
_select_optimal_template(T, dispute_data) ==
    LET templates == _get_active_templates(T) IN
    IF templates = {} THEN {"default_dispute_template"}
    ELSE { r.id : r \in { q \in templates :
                            \A o \in templates :
                               _calculate_template_score(o, dispute_data)
                                 <= _calculate_template_score(q, dispute_data) } }

_get_template(T, template_id) ==
    LET hits == { r \in T : r.id = template_id /\ r.is_active }
    IN  IF hits = {} THEN None ELSE Some(CHOOSE r \in hits : TRUE)

variable_map(dispute_data, client_data) ==
    [client_first_name |-> client_data.first_name,
     account_name |-> dispute_data.account_name]

\* content.replace("{{variable}}", value) for every listed variable the
\* mapping knows.
_render_template(template, dispute_data, client_data) ==
    LET vm == variable_map(dispute_data, client_data)
        listed == { template.variables[i] : i \in 1..Len(template.variables) }
    IN  [i \in 1..Len(template.content) |->
           LET w == template.content[i] IN
           IF \E v \in listed \cap DOMAIN vm : w = Var(v)
             THEN Word(vm[CHOOSE v \in listed \cap DOMAIN vm : w = Var(v)])
             ELSE w]

LetterRaised(message) == [outcome |-> "raised", error |-> message]

\* generate_letter: the outcomes a call can have, each with the
\* generated_letters table it leaves.
generate_letter(T, dispute, client, template_id, saved) ==
    IF dispute = None
      THEN { [result |-> LetterRaised("Dispute not found"), saved |-> saved] }
    ELSE IF client = None
      THEN { [result |-> LetterRaised("Client not found"), saved |-> saved] }
    ELSE
      LET dispute_data == TheValue(dispute)
          client_data == TheValue(client)
          ids == IF template_id = None
                   THEN _select_optimal_template(T, dispute_data)
                   ELSE template_id
      IN
      { IF _get_template(T, id) = None
          THEN [result |-> LetterRaised("Template not found"), saved |-> saved]
          ELSE LET template == TheValue(_get_template(T, id))
                   letter_content == _render_template(template, dispute_data,
                                                       client_data)
               IN [result |-> [outcome |-> "returned",
                               letter_id |-> Len(saved) + 1,
                               content |-> letter_content,
                               template_used |-> template.name,
                               variables_used |-> template.variables],
                   saved |-> Append(saved,
                                    [id |-> Len(saved) + 1,
                                     template_id |-> id,
                                     content |-> letter_content,
                                     status |-> "generated"])]
        : id \in ids }

GenerateLetter ==
    /\ Len(letterSaved) < MaxLetters
    /\ \E template_id \in {None} \cup { Some(id) : id \in TemplateIds } :
         /\ letterRequest' = template_id
         /\ \E out \in generate_letter(letterTemplates, letterDispute,
                                       letterClient, template_id, letterSaved) :
              /\ letterResult' = out.result
              /\ letterSaved' = out.saved
    /\ UNCHANGED <<letterTemplates, letterDispute, letterClient>>
    /\ UNCHANGED otherThanLetter

InitLetter ==
    /\ letterTemplates \in TemplateTables
    /\ letterDispute \in {None, Some([client_id |-> "c1",
                                      dispute_type |-> "late_payment",
                                      account_name |-> "Local Bank"])}
    /\ letterClient \in {None, Some([id |-> "c1", first_name |-> "Ada"])}
    /\ letterRequest = None
    /\ letterSaved = <<>>
    /\ letterResult = [outcome |-> "none"]
    /\ OthersIdle("letter")

NextLetter == GenerateLetter

SpecLetter == InitLetter /\ [][NextLetter]_vars

\* C21: when the organization has no active template and the request names
\* none, generating a letter for an existing dispute and client produces a
\* letter through the default-template fallback and never fails with
\* 'Template not found'.
C21_DefaultTemplateFallback ==
    ( /\ letterResult.outcome # "none"
      /\ letterRequest = None
      /\ _get_active_templates(letterTemplates) = {}
      /\ letterDispute # None
      /\ letterClient # None )
        => letterResult.outcome = "returned"

====
